---- MODULE Spec2Model ----
(***************************************************************************)
(* Model of the ralph-api request pipeline, idempotency store, task domain *)
(* and event bus (crates/ralph-api).                                       *)
(*                                                                         *)
(* Rust Option<T> values are modelled as sequences: None is <<>> and       *)
(* Some(x) is <<x>>.  Wall-clock reads (Utc::now, Instant::now) read the   *)
(* model clock `now`, which the Tick action advances.  Snapshot files of   *)
(* the domains (persist/load) are outside the model: writes are taken to   *)
(* succeed.                                                                *)
(***************************************************************************)
EXTENDS Integers, Sequences, FiniteSets, TLC

VARIABLES
    now,                  \* model clock
    auth,                 \* RpcRuntime.auth
    merge_queue,          \* the merge queue of the workspace : loop id -> entry
    tasks,                \* TaskDomain.tasks : id -> TaskRecord
    queue_counter,        \* TaskDomain.queue_counter
    last_op,              \* the last task-domain call and its outcome
    sequence,             \* StreamState.sequence
    subscription_counter, \* StreamState.subscription_counter
    history,              \* StreamState.history
    subscriptions,        \* StreamState.subscriptions : id -> SubscriptionRecord
    minted,               \* sequence numbers handed out by next_event, in order
    conn,                 \* the stream connection task (transport.rs)
    entries,              \* InMemoryIdempotencyStore.entries : store key -> Entry
    reqs                  \* the HTTP requests in handle_http_request, by arrival

\* ------------------------------------------------------------------------
\* Bounds of the model
\* ------------------------------------------------------------------------
MaxNow == 2
MaxQueueCounter == 2
\* cap on the bus sequence counter (events minted in a run)
MaxSequence == 4
\* cap on the subscription counter
MaxSubscriptions == 1
\* HTTP requests in a run
MaxRequests == 3
\* HISTORY_LIMIT (2048, stream_domain/mod.rs:22) scaled to the model
HISTORY_LIMIT == 2
\* LIVE_BUFFER_CAPACITY (256, stream_domain/mod.rs:23) scaled to the model
LIVE_BUFFER_CAPACITY == 1
\* ApiConfig.idempotency_ttl_secs (3600, config.rs:59) in clock ticks
IdempotencyTtl == 1

\* program constants
DEFAULT_REPLAY_LIMIT == 200
KEEPALIVE_INTERVAL_MS == 15000

None == <<>>
Some(x) == <<x>>
IsSome(o) == o /= <<>>
Unwrap(o) == o[1]

\* ------------------------------------------------------------------------
\* Task domain (task_domain.rs)
\* ------------------------------------------------------------------------
TaskIds == {"t1", "t2"}
\* statuses a client can put in task.create / task.update; the handlers
\* take the status as a free string (tests use "state-0".."state-7")
StatusInputs == {"open", "pending", "running", "closed", "failed", "state-0"}
PriorityInputs == {2}
TitleInputs == {"a"}
\* blockedBy names t1, which may or may not be stored at the time
BlockerInputs == {"t1"}
AutoExecuteInputs == {<<>>, <<FALSE>>}

\* position of an id in the BTreeMap's key order
IdRank(id) == CASE id = "t1" -> 1 [] id = "t2" -> 2 [] OTHER -> 3

is_terminal_status(status) == status \in {"closed", "failed"}

clamp(v, lo, hi) == IF v < lo THEN lo ELSE IF v > hi THEN hi ELSE v

\* outcome of a domain call
Ok(T, qc, res) == [tasks |-> T, queue_counter |-> qc, err |-> None, result |-> res]
Err(T, qc, code) == [tasks |-> T, queue_counter |-> qc, err |-> Some(code), result |-> None]

\* unblocking_ids that counts every terminal blocker, failed ones included
unblocking_ids_AnyTerminal(T) ==
    {id \in DOMAIN T : is_terminal_status(T[id].status) \/ IsSome(T[id].archived_at)}

unblocking_ids(T) ==
    {id \in DOMAIN T : T[id].status = "closed" \/ IsSome(T[id].archived_at)}

ready(T) ==
    {id \in DOMAIN T :
        /\ T[id].status = "open"
        /\ ~IsSome(T[id].archived_at)
        /\ (T[id].blocked_by = None \/ Unwrap(T[id].blocked_by) \in unblocking_ids(T))}

next_queued_task_id(qc, t) == <<"queued", t, qc + 1>>

\* queue_task without the reset of completed_at
queue_task_KeepsCompletedAt(T, qc, id, t) ==
    LET queued_task_id == next_queued_task_id(qc, t)
        qc1 == qc + 1
    IN  IF id \notin DOMAIN T THEN Err(T, qc1, "TASK_NOT_FOUND")
        ELSE IF IsSome(T[id].archived_at) THEN Err(T, qc1, "PRECONDITION_FAILED")
        ELSE IF T[id].status \in {"pending", "running"} THEN Err(T, qc1, "PRECONDITION_FAILED")
        ELSE Ok([T EXCEPT ![id] = [@ EXCEPT !.status = "pending",
                                            !.queued_task_id = Some(queued_task_id),
                                            !.error_message = None,
                                            !.updated_at = t]],
                qc1, queued_task_id)

queue_task(T, qc, id, t) ==
    LET queued_task_id == next_queued_task_id(qc, t)
        qc1 == qc + 1
    IN  IF id \notin DOMAIN T THEN Err(T, qc1, "TASK_NOT_FOUND")
        ELSE IF IsSome(T[id].archived_at) THEN Err(T, qc1, "PRECONDITION_FAILED")
        ELSE IF T[id].status \in {"pending", "running"} THEN Err(T, qc1, "PRECONDITION_FAILED")
        ELSE Ok([T EXCEPT ![id] = [@ EXCEPT !.status = "pending",
                                            !.queued_task_id = Some(queued_task_id),
                                            !.completed_at = None,
                                            !.error_message = None,
                                            !.updated_at = t]],
                qc1, queued_task_id)

\* run that answers with a second minted id instead of the stored one
run_AnswersFreshId(T, qc, id, t) ==
    LET q == queue_task(T, qc, id, t)
    IN  IF IsSome(q.err) THEN q
        ELSE Ok(q.tasks, q.queue_counter,
                [success |-> TRUE, queued_task_id |-> next_queued_task_id(q.queue_counter, t),
                 task |-> q.tasks[id]])

run(T, qc, id, t) ==
    LET q == queue_task(T, qc, id, t)
    IN  IF IsSome(q.err) THEN q
        ELSE Ok(q.tasks, q.queue_counter,
                [success |-> TRUE, queued_task_id |-> q.result, task |-> q.tasks[id]])

\* create that stores the task before it checks autoExecute against the status
create_InsertsBeforeCheck(T, qc, params, t) ==
    IF params.id \in DOMAIN T THEN Err(T, qc, "CONFLICT")
    ELSE
    LET requested_status == IF IsSome(params.status) THEN Unwrap(params.status) ELSE "open"
        auto_execute == IF IsSome(params.auto_execute) THEN Unwrap(params.auto_execute) ELSE TRUE
        task == [id |-> params.id,
                 title |-> params.title,
                 status |-> requested_status,
                 priority |-> clamp(IF IsSome(params.priority) THEN Unwrap(params.priority) ELSE 2, 1, 5),
                 blocked_by |-> params.blocked_by,
                 archived_at |-> None,
                 queued_task_id |-> None,
                 created_at |-> t,
                 updated_at |-> t,
                 completed_at |-> IF is_terminal_status(requested_status) THEN Some(t) ELSE None,
                 error_message |-> None]
        T1 == [id \in DOMAIN T \cup {params.id} |-> IF id = params.id THEN task ELSE T[id]]
        should_auto_execute == auto_execute /\ task.blocked_by = None /\ task.status = "open"
    IN  IF auto_execute /\ requested_status /= "open" THEN Err(T1, qc, "INVALID_PARAMS")
        ELSE IF should_auto_execute
        THEN LET r == run(T1, qc, params.id, t)
             IN  IF IsSome(r.err) THEN r
                 ELSE Ok(r.tasks, r.queue_counter, r.tasks[params.id])
        ELSE Ok(T1, qc, T1[params.id])

create(T, qc, params, t) ==
    IF params.id \in DOMAIN T THEN Err(T, qc, "CONFLICT")
    ELSE
    LET requested_status == IF IsSome(params.status) THEN Unwrap(params.status) ELSE "open"
        auto_execute == IF IsSome(params.auto_execute) THEN Unwrap(params.auto_execute) ELSE TRUE
    IN  IF auto_execute /\ requested_status /= "open" THEN Err(T, qc, "INVALID_PARAMS")
        ELSE
        LET task == [id |-> params.id,
                     title |-> params.title,
                     status |-> requested_status,
                     priority |-> clamp(IF IsSome(params.priority) THEN Unwrap(params.priority) ELSE 2, 1, 5),
                     blocked_by |-> params.blocked_by,
                     archived_at |-> None,
                     queued_task_id |-> None,
                     created_at |-> t,
                     updated_at |-> t,
                     completed_at |-> IF is_terminal_status(requested_status) THEN Some(t) ELSE None,
                     error_message |-> None]
            T1 == [id \in DOMAIN T \cup {params.id} |-> IF id = params.id THEN task ELSE T[id]]
            should_auto_execute == auto_execute /\ task.blocked_by = None /\ task.status = "open"
        IN  IF should_auto_execute
            THEN LET r == run(T1, qc, params.id, t)
                 IN  IF IsSome(r.err) THEN r
                     ELSE Ok(r.tasks, r.queue_counter, r.tasks[params.id])
            ELSE Ok(T1, qc, T1[params.id])

\* apply_status without the clearing of queued_task_id on a status that is
\* neither terminal nor pending/running
apply_status_KeepsQueueId(task, status, t) ==
    LET s1 == [task EXCEPT !.status = status]
        s2 == IF is_terminal_status(status)
              THEN [s1 EXCEPT !.completed_at = Some(t), !.queued_task_id = None]
              ELSE [s1 EXCEPT !.completed_at = None]
    IN  IF status /= "failed" THEN [s2 EXCEPT !.error_message = None] ELSE s2

\* apply_status without the clearing of error_message on a status other
\* than failed
apply_status_KeepsErrorMessage(task, status, t) ==
    LET s1 == [task EXCEPT !.status = status]
    IN  IF is_terminal_status(status)
        THEN [s1 EXCEPT !.completed_at = Some(t), !.queued_task_id = None]
        ELSE IF status \notin {"pending", "running"}
             THEN [s1 EXCEPT !.completed_at = None, !.queued_task_id = None]
             ELSE [s1 EXCEPT !.completed_at = None]

\* the status branch of update and the body of transition_task
apply_status(task, status, t) ==
    LET s1 == [task EXCEPT !.status = status]
        s2 == IF is_terminal_status(status)
              THEN [s1 EXCEPT !.completed_at = Some(t), !.queued_task_id = None]
              ELSE IF status \notin {"pending", "running"}
                   THEN [s1 EXCEPT !.completed_at = None, !.queued_task_id = None]
                   ELSE [s1 EXCEPT !.completed_at = None]
    IN  IF status /= "failed" THEN [s2 EXCEPT !.error_message = None] ELSE s2

update(T, qc, input, t) ==
    IF input.id \notin DOMAIN T THEN Err(T, qc, "TASK_NOT_FOUND")
    ELSE
    LET a == T[input.id]
        b == IF IsSome(input.title) THEN [a EXCEPT !.title = Unwrap(input.title)] ELSE a
        c == IF IsSome(input.status) THEN apply_status(b, Unwrap(input.status), t) ELSE b
        d == IF IsSome(input.priority) THEN [c EXCEPT !.priority = clamp(Unwrap(input.priority), 1, 5)] ELSE c
        e == IF IsSome(input.blocked_by) THEN [d EXCEPT !.blocked_by = Unwrap(input.blocked_by)] ELSE d
        f == [e EXCEPT !.updated_at = t]
        T1 == [T EXCEPT ![input.id] = f]
    IN  Ok(T1, qc, f)

transition_task(T, qc, id, status, t) ==
    IF id \notin DOMAIN T THEN Err(T, qc, "TASK_NOT_FOUND")
    ELSE LET f == [apply_status(T[id], status, t) EXCEPT !.updated_at = t]
         IN  Ok([T EXCEPT ![id] = f], qc, f)

close(T, qc, id, t) == transition_task(T, qc, id, "closed", t)

archive(T, qc, id, t) ==
    IF id \notin DOMAIN T THEN Err(T, qc, "TASK_NOT_FOUND")
    ELSE LET f == [T[id] EXCEPT !.archived_at = Some(t), !.updated_at = t]
         IN  Ok([T EXCEPT ![id] = f], qc, f)

unarchive(T, qc, id, t) ==
    IF id \notin DOMAIN T THEN Err(T, qc, "TASK_NOT_FOUND")
    ELSE LET f == [T[id] EXCEPT !.archived_at = None, !.updated_at = t]
         IN  Ok([T EXCEPT ![id] = f], qc, f)

\* delete without the status guard
delete_AnyStatus(T, qc, id) ==
    IF id \notin DOMAIN T THEN Err(T, qc, "TASK_NOT_FOUND")
    ELSE Ok([x \in DOMAIN T \ {id} |-> T[x]], qc, TRUE)

delete(T, qc, id) ==
    IF id \notin DOMAIN T THEN Err(T, qc, "TASK_NOT_FOUND")
    ELSE IF T[id].status \notin {"failed", "closed"} THEN Err(T, qc, "PRECONDITION_FAILED")
    ELSE Ok([x \in DOMAIN T \ {id} |-> T[x]], qc, TRUE)

\* clear that also resets the queue counter
clear_ResetsCounter(T, qc) == Ok([x \in {} |-> x], 0, TRUE)

clear(T, qc) == Ok([x \in {} |-> x], qc, TRUE)

retry(T, qc, id, t) ==
    IF id \notin DOMAIN T THEN Err(T, qc, "TASK_NOT_FOUND")
    ELSE IF T[id].status /= "failed" THEN Err(T, qc, "PRECONDITION_FAILED")
    ELSE LET T1 == [T EXCEPT ![id] = [@ EXCEPT !.status = "open",
                                               !.queued_task_id = None,
                                               !.completed_at = None,
                                               !.error_message = None,
                                               !.updated_at = t]]
         IN  run(T1, qc, id, t)

cancel(T, qc, id, t) ==
    IF id \notin DOMAIN T THEN Err(T, qc, "TASK_NOT_FOUND")
    ELSE IF T[id].status \notin {"pending", "running"} THEN Err(T, qc, "PRECONDITION_FAILED")
    ELSE LET f == [T[id] EXCEPT !.status = "failed",
                                !.completed_at = Some(t),
                                !.updated_at = t,
                                !.error_message = Some("Task cancelled by user"),
                                !.queued_task_id = None]
         IN  Ok([T EXCEPT ![id] = f], qc, f)

\* ready() as the ordered list run_all walks: created_at ascending, ties in
\* BTreeMap (id) order because the sort is stable
RECURSIVE ready_order(_, _)
ready_order(T, ids) ==
    IF ids = {} THEN <<>>
    ELSE LET first == CHOOSE a \in ids : \A b \in ids :
                          \/ T[a].created_at < T[b].created_at
                          \/ (T[a].created_at = T[b].created_at /\ IdRank(a) <= IdRank(b))
         IN  <<first>> \o ready_order(T, ids \ {first})

RECURSIVE run_all_loop(_, _, _, _, _, _)
run_all_loop(T, qc, ids, t, enqueued, errors) ==
    IF ids = <<>> THEN Ok(T, qc, [enqueued |-> enqueued, errors |-> errors])
    ELSE LET q == queue_task(T, qc, Head(ids), t)
         IN  IF IsSome(q.err)
             THEN run_all_loop(q.tasks, q.queue_counter, Tail(ids), t, enqueued, Append(errors, Head(ids)))
             ELSE run_all_loop(q.tasks, q.queue_counter, Tail(ids), t, enqueued + 1, errors)

\* run_all that enqueues every open task, blocked ones included
run_all_IgnoresBlockers(T, qc, t) ==
    run_all_loop(T, qc,
                 ready_order(T, {id \in DOMAIN T : T[id].status = "open" /\ ~IsSome(T[id].archived_at)}),
                 t, 0, <<>>)

run_all(T, qc, t) == run_all_loop(T, qc, ready_order(T, ready(T)), t, 0, <<>>)

\* ------------------------------------------------------------------------
\* Authenticator (auth.rs)
\* ------------------------------------------------------------------------
\* TrustedLocalAuthenticator, TokenAuthenticator, or an Authenticator handed to
\* RpcRuntime::with_components that makes each bearer token its own principal
Authenticators == {"trusted_local", "token", "components"}
\* ApiConfig.token of a runtime in token mode
ExpectedToken == "secret"
\* Authorization headers: None or Some([scheme, token])
HeaderInputs ==
    {None, Some([scheme |-> "Bearer", token |-> "secret"]),
     Some([scheme |-> "Bearer", token |-> "wrong"])}

token_from_header(header) ==
    IF header = None THEN None
    ELSE IF Unwrap(header).scheme \in {"Bearer", "bearer"} THEN Some(Unwrap(header).token)
    ELSE None

\* meta_auth is None or Some([mode, token]) with token an Option
token_from_meta(meta_auth) ==
    IF meta_auth = None THEN None
    ELSE IF Unwrap(meta_auth).mode = "token" THEN Unwrap(meta_auth).token
    ELSE None

\* authorize whose token authenticator accepts every provided token
authorize_AnyToken(authenticator, header, meta_auth) ==
    IF authenticator = "trusted_local" THEN Some("trusted_local")
    ELSE IF authenticator = "components" THEN token_from_header(header)
    ELSE LET from_header == token_from_header(header)
         IN  IF from_header /= None THEN from_header ELSE token_from_meta(meta_auth)

\* Ok(principal) as Some(principal), Err(unauthorized) as None
authorize(authenticator, header, meta_auth) ==
    IF authenticator = "trusted_local" THEN Some("trusted_local")
    ELSE IF authenticator = "components" THEN token_from_header(header)
    ELSE LET from_header == token_from_header(header)
             provided == IF from_header /= None THEN from_header ELSE token_from_meta(meta_auth)
         IN  IF provided /= None /\ Unwrap(provided) = ExpectedToken THEN provided ELSE None

\* RpcRuntime::authenticate_websocket: the dummy request has no meta
authenticate_websocket(authenticator, header) == authorize(authenticator, header, None)

\* ------------------------------------------------------------------------
\* Idempotency store (idempotency.rs)
\* ------------------------------------------------------------------------
\* format!("{method}:{key}")
make_key(method, key) == <<method, ":", key>>

\* cleanup that never evicts
cleanup_KeepsAll(E, t) == E

\* entries.retain(|_, entry| entry.created_at.elapsed() <= ttl)
cleanup(E, t) ==
    [k \in {x \in DOMAIN E : t - E[x].created_at <= IdempotencyTtl} |-> E[k]]

\* check that answers New where the code answers Conflict
check_NoConflict(E, method, key, params, t) ==
    LET kept == cleanup(E, t)
        store_key == make_key(method, key)
    IN  IF store_key \notin DOMAIN kept
        THEN [entries |-> kept, outcome |-> "New", response |-> None]
        ELSE IF kept[store_key].params = params
        THEN [entries |-> kept, outcome |-> "Replay", response |-> Some(kept[store_key].response)]
        ELSE [entries |-> kept, outcome |-> "New", response |-> None]

\* IdempotencyStore::check; entries is the map after the cleanup
check(E, method, key, params, t) ==
    LET kept == cleanup(E, t)
        store_key == make_key(method, key)
    IN  IF store_key \notin DOMAIN kept
        THEN [entries |-> kept, outcome |-> "New", response |-> None]
        ELSE IF kept[store_key].params = params
        THEN [entries |-> kept, outcome |-> "Replay", response |-> Some(kept[store_key].response)]
        ELSE [entries |-> kept, outcome |-> "Conflict", response |-> None]

\* IdempotencyStore::store
store(E, method, key, params, response, t) ==
    LET kept == cleanup(E, t)
        store_key == make_key(method, key)
    IN  [k \in DOMAIN kept \cup {store_key} |->
            IF k = store_key
            THEN [params |-> params, response |-> response, created_at |-> t]
            ELSE kept[k]]

\* ------------------------------------------------------------------------
\* Protocol and errors (protocol.rs, errors.rs)
\* ------------------------------------------------------------------------
API_VERSION == "v1"

KNOWN_METHODS ==
    {"system.health", "system.version", "system.capabilities",
     "task.list", "task.get", "task.ready", "task.create", "task.update", "task.close",
     "task.archive", "task.unarchive", "task.delete", "task.clear", "task.run",
     "task.run_all", "task.retry", "task.cancel", "task.status",
     "loop.list", "loop.status", "loop.process", "loop.prune", "loop.retry", "loop.discard",
     "loop.stop", "loop.merge", "loop.merge_button_state", "loop.trigger_merge_task",
     "planning.list", "planning.get", "planning.start", "planning.respond",
     "planning.resume", "planning.delete", "planning.get_artifact",
     "config.get", "config.update", "preset.list",
     "collection.list", "collection.get", "collection.create", "collection.update",
     "collection.delete", "collection.import", "collection.export",
     "stream.subscribe", "stream.unsubscribe", "stream.ack"}

is_known_method(method) == method \in KNOWN_METHODS

\* the methods dispatch routes by their prefix
TaskMethods ==
    {"task.list", "task.get", "task.ready", "task.create", "task.update", "task.close",
     "task.archive", "task.unarchive", "task.delete", "task.clear", "task.run",
     "task.run_all", "task.retry", "task.cancel", "task.status"}
LoopMethods ==
    {"loop.list", "loop.status", "loop.process", "loop.prune", "loop.retry", "loop.discard",
     "loop.stop", "loop.merge", "loop.merge_button_state", "loop.trigger_merge_task"}
PlanningMethods ==
    {"planning.list", "planning.get", "planning.start", "planning.respond",
     "planning.resume", "planning.delete", "planning.get_artifact"}
CollectionMethods ==
    {"collection.list", "collection.get", "collection.create", "collection.update",
     "collection.delete", "collection.import", "collection.export"}
StreamMethods == {"stream.subscribe", "stream.unsubscribe", "stream.ack"}

MUTATING_METHODS ==
    {"task.create", "task.update", "task.close", "task.archive", "task.unarchive",
     "task.delete", "task.clear", "task.run", "task.run_all", "task.retry", "task.cancel",
     "loop.process", "loop.prune", "loop.retry", "loop.discard", "loop.stop", "loop.merge",
     "loop.trigger_merge_task", "planning.start", "planning.respond", "planning.resume",
     "planning.delete", "config.update", "collection.create", "collection.update",
     "collection.delete", "collection.import"}

is_mutating_method(method) == method \in MUTATING_METHODS

\* RpcErrorCode, by its wire name (as_str)
RpcErrorCodes ==
    {"INVALID_REQUEST", "METHOD_NOT_FOUND", "INVALID_PARAMS", "UNAUTHORIZED", "FORBIDDEN",
     "NOT_FOUND", "CONFLICT", "PRECONDITION_FAILED", "RATE_LIMITED", "TIMEOUT",
     "SERVICE_UNAVAILABLE", "INTERNAL", "TASK_NOT_FOUND", "LOOP_NOT_FOUND",
     "PLANNING_SESSION_NOT_FOUND", "COLLECTION_NOT_FOUND", "CONFIG_INVALID",
     "IDEMPOTENCY_CONFLICT", "BACKPRESSURE_DROPPED"}

\* status_for_code with the timeout arm answering 504 Gateway Timeout
status_for_code_TimeoutGateway(code) ==
    CASE code \in {"INVALID_REQUEST", "INVALID_PARAMS", "CONFIG_INVALID"} -> 400
      [] code = "UNAUTHORIZED" -> 401
      [] code = "FORBIDDEN" -> 403
      [] code \in {"METHOD_NOT_FOUND", "NOT_FOUND", "TASK_NOT_FOUND", "LOOP_NOT_FOUND",
                   "PLANNING_SESSION_NOT_FOUND", "COLLECTION_NOT_FOUND"} -> 404
      [] code \in {"CONFLICT", "IDEMPOTENCY_CONFLICT"} -> 409
      [] code = "PRECONDITION_FAILED" -> 412
      [] code = "RATE_LIMITED" -> 429
      [] code = "TIMEOUT" -> 504
      [] code \in {"SERVICE_UNAVAILABLE", "BACKPRESSURE_DROPPED"} -> 503
      [] OTHER -> 500

status_for_code(code) ==
    CASE code \in {"INVALID_REQUEST", "INVALID_PARAMS", "CONFIG_INVALID"} -> 400
      [] code = "UNAUTHORIZED" -> 401
      [] code = "FORBIDDEN" -> 403
      [] code \in {"METHOD_NOT_FOUND", "NOT_FOUND", "TASK_NOT_FOUND", "LOOP_NOT_FOUND",
                   "PLANNING_SESSION_NOT_FOUND", "COLLECTION_NOT_FOUND"} -> 404
      [] code \in {"CONFLICT", "IDEMPOTENCY_CONFLICT"} -> 409
      [] code = "PRECONDITION_FAILED" -> 412
      [] code = "RATE_LIMITED" -> 429
      [] code = "TIMEOUT" -> 408
      [] code \in {"SERVICE_UNAVAILABLE", "BACKPRESSURE_DROPPED"} -> 503
      [] OTHER -> 500

\* (status, envelope) of a success; servedAt is read when the envelope is built
success_response(request_id, method, result, t) ==
    [status |-> 200,
     envelope |-> [id |-> request_id, method |-> method, ok |-> TRUE,
                   body |-> result, served_at |-> t]]

\* ApiError::new: the status and the retryable flag are set from the code
ApiError_new(code) ==
    [code |-> code,
     status |-> status_for_code(code),
     retryable |-> code \in {"RATE_LIMITED", "TIMEOUT", "SERVICE_UNAVAILABLE",
                              "BACKPRESSURE_DROPPED"}]

\* (status, envelope) of an ApiError with the request's context; the body
\* of the envelope is the error's code, with its retryable flag
error_response(request_id, method, code, t) ==
    LET error == ApiError_new(code)
    IN  [status |-> error.status,
         envelope |-> [id |-> request_id, method |-> method, ok |-> FALSE,
                       body |-> error.code, retryable |-> error.retryable, served_at |-> t]]

\* ------------------------------------------------------------------------
\* Stream domain (stream_domain/mod.rs, stream_domain/filters.rs)
\* ------------------------------------------------------------------------
STREAM_TOPICS ==
    {"system.heartbeat", "system.lifecycle", "task.log.line", "task.status.changed",
     "loop.status.changed", "loop.merge.progress", "planning.prompt.issued",
     "planning.response.recorded", "planning.artifact.updated", "config.updated",
     "collection.updated", "preset.refreshed", "error.raised", "stream.keepalive"}

\* Strings the code formats or parses are sequences of one-character strings.
DigitChars == <<"0", "1", "2", "3", "4", "5", "6", "7", "8", "9">>
IsDigit(ch) == \E d \in 1..10 : DigitChars[d] = ch
DigitValue(ch) == (CHOOSE d \in 1..10 : DigitChars[d] = ch) - 1

\* "{}" of an unsigned integer
RECURSIVE Dec(_)
Dec(n) == IF n < 10 THEN <<DigitChars[n + 1]>>
          ELSE Dec(n \div 10) \o <<DigitChars[(n % 10) + 1]>>

\* format!("{}-{sequence}", Utc::now().timestamp_millis())
format_cursor(millis, seq) == Dec(millis) \o <<"-">> \o Dec(seq)

RECURSIVE digits_value(_, _)
digits_value(str, acc) ==
    IF str = <<>> THEN acc ELSE digits_value(Tail(str), acc * 10 + DigitValue(Head(str)))

\* str::parse::<u64>: an optional '+', then one or more decimal digits (the
\* inputs of the model stay far below 2^64, where parse overflows to Err)
parse_u64(str) ==
    LET body == IF str /= <<>> /\ Head(str) = "+" THEN Tail(str) ELSE str
    IN  IF body = <<>> \/ \E i \in 1..Len(body) : ~IsDigit(body[i]) THEN None
        ELSE Some(digits_value(body, 0))

\* the text after the last '-', or None when there is no '-'
rsplit_once_dash(str) ==
    LET at == {i \in 1..Len(str) : str[i] = "-"}
    IN  IF at = {} THEN None
        ELSE LET last == CHOOSE i \in at : \A j \in at : j <= i
             IN  Some(SubSeq(str, last + 1, Len(str)))

\* Ok(sequence) as Some(sequence), Err(invalid_params) as None
cursor_sequence(cursor) ==
    LET tail == rsplit_once_dash(cursor)
    IN  IF tail = None THEN None ELSE parse_u64(Unwrap(tail))

validate_cursor(cursor) == cursor_sequence(cursor) /= None

\* cursor_is_older with the comparison turned around
cursor_is_older_Newer(candidate, current) ==
    Unwrap(cursor_sequence(candidate)) > Unwrap(cursor_sequence(current))

\* both cursors are valid where the code calls it
cursor_is_older(candidate, current) ==
    Unwrap(cursor_sequence(candidate)) < Unwrap(cursor_sequence(current))

\* JSON values of the filters object: [t |-> "str", v |-> string],
\* [t |-> "arr", v |-> sequence of JSON values], [t |-> "num"]
JStr(x) == [t |-> "str", v |-> x]
JArr(xs) == [t |-> "arr", v |-> xs]
JNum == [t |-> "num", v |-> 0]
BlankStrings == {"", " "}

\* Ok(target') as Some(target'), Err(invalid_params) as None
parse_filter_set(object, key, target) ==
    IF key \notin DOMAIN object THEN Some(target)
    ELSE LET value == object[key]
         IN  IF value.t = "str"
             THEN Some(IF value.v \in BlankStrings THEN target ELSE target \cup {value.v})
             ELSE IF value.t = "arr"
             THEN IF \E i \in 1..Len(value.v) : value.v[i].t /= "str" THEN None
                  ELSE Some(target \cup {value.v[i].v : i \in {j \in 1..Len(value.v) :
                                                               value.v[j].v \notin BlankStrings}})
             ELSE None

RECURSIVE parse_filter_keys(_, _, _)
parse_filter_keys(object, keys, target) ==
    IF keys = <<>> THEN Some(target)
    ELSE LET r == parse_filter_set(object, Head(keys), target)
         IN  IF r = None THEN None ELSE parse_filter_keys(object, Tail(keys), Unwrap(r))

\* SubscriptionFilters::from_json; raw is None, Some(object) or Some(JNum)
filters_from_json(raw) ==
    IF raw = None THEN Some([resource_ids |-> {}, resource_types |-> {}])
    ELSE IF Unwrap(raw) = JNum THEN None
    ELSE LET object == Unwrap(raw)
             ids == parse_filter_keys(object, <<"resourceId", "resourceIds", "taskId", "taskIds">>, {})
             types == parse_filter_keys(object, <<"resourceType", "resourceTypes">>, {})
         IN  IF ids = None \/ types = None THEN None
             ELSE Some([resource_ids |-> Unwrap(ids), resource_types |-> Unwrap(types)])

filters_matches(filters, event) ==
    /\ (filters.resource_ids = {} \/ event.resource.id \in filters.resource_ids)
    /\ (filters.resource_types = {} \/ event.resource.kind \in filters.resource_types)

\* subscription_matches without the topic test
subscription_matches_AnyTopic(subscription, event) ==
    filters_matches(subscription.filters, event)

subscription_matches(subscription, event) ==
    event.topic \in subscription.topics /\ filters_matches(subscription.filters, event)

RECURSIVE dedupe(_, _)
dedupe(topics, seen) ==
    IF topics = <<>> THEN <<>>
    ELSE IF Head(topics) \in seen THEN dedupe(Tail(topics), seen)
    ELSE <<Head(topics)>> \o dedupe(Tail(topics), seen \cup {Head(topics)})

\* Ok(accepted_topics) as Some(..), Err(invalid_params) as None
normalize_topics(topics) ==
    IF topics = <<>> THEN None
    ELSE IF \E i \in 1..Len(topics) : topics[i] \notin STREAM_TOPICS THEN None
    ELSE Some(dedupe(topics, {}))

\* next_event that stamps every event with sequence 0
next_event_ZeroSequence(seq, topic, resource_type, resource_id, payload, t) ==
    [topic |-> topic,
     cursor |-> format_cursor(t, 0),
     sequence |-> 0,
     ts |-> t,
     resource |-> [kind |-> resource_type, id |-> resource_id],
     replay |-> [mode |-> "live", requested_cursor |-> None, batch |-> None],
     payload |-> payload]

\* the event minted when state.sequence is seq; the caller advances the counter
next_event(seq, topic, resource_type, resource_id, payload, t) ==
    [topic |-> topic,
     cursor |-> format_cursor(t, seq),
     sequence |-> seq,
     ts |-> t,
     resource |-> [kind |-> resource_type, id |-> resource_id],
     replay |-> [mode |-> "live", requested_cursor |-> None, batch |-> None],
     payload |-> payload]

latest_cursor_or_now(hist, t) ==
    IF hist /= <<>> THEN hist[Len(hist)].cursor ELSE format_cursor(t, 0)

subscription_id(t, counter) == <<"sub", t, counter>>

\* StreamDomain::subscribe: Some(record to insert) or None for invalid-params
subscribe_record(params, principal, hist, t) ==
    LET accepted == normalize_topics(params.topics)
        filters == filters_from_json(params.filters)
    IN  IF accepted = None THEN None
        ELSE IF IsSome(params.cursor) /\ ~validate_cursor(Unwrap(params.cursor)) THEN None
        ELSE IF filters = None THEN None
        ELSE Some([topics |-> {Unwrap(accepted)[i] : i \in 1..Len(Unwrap(accepted))},
                   filters |-> Unwrap(filters),
                   cursor |-> IF IsSome(params.cursor) THEN Unwrap(params.cursor)
                              ELSE latest_cursor_or_now(hist, t),
                   replay_limit |-> IF IsSome(params.replay_limit)
                                    THEN Unwrap(params.replay_limit) ELSE DEFAULT_REPLAY_LIMIT,
                   explicit_cursor |-> IsSome(params.cursor),
                   principal |-> principal])

SeqMax(a, b) == IF a > b THEN a ELSE b

\* replay_for_subscription without the cursor filter
replay_events_NoCursorFilter(subscription, hist) ==
    SelectSeq(hist, LAMBDA event : subscription_matches(subscription, event))

\* the history entries above the cursor that match, oldest first
replay_events(subscription, hist) ==
    LET cursor_seq == Unwrap(cursor_sequence(subscription.cursor))
    IN  SelectSeq(hist, LAMBDA event :
            event.sequence > cursor_seq /\ subscription_matches(subscription, event))

\* replay_batch that keeps the oldest events
replay_batch_KeepsOldest(subscription, hist) ==
    LET matching == replay_events(subscription, hist)
        dropped_count == SeqMax(Len(matching) - subscription.replay_limit, 0)
        kept == SubSeq(matching, 1, Len(matching) - dropped_count)
        replay_mode == IF subscription.explicit_cursor THEN "resume" ELSE "replay"
    IN  [events |-> [i \in 1..Len(kept) |->
                        [kept[i] EXCEPT !.replay = [mode |-> replay_mode,
                                                    requested_cursor |-> Some(subscription.cursor),
                                                    batch |-> Some(Len(kept))]]],
         dropped_count |-> dropped_count]

\* StreamDomain::replay_for_subscription for a stored subscription
replay_batch(subscription, hist) ==
    LET matching == replay_events(subscription, hist)
        dropped_count == SeqMax(Len(matching) - subscription.replay_limit, 0)
        kept == SubSeq(matching, dropped_count + 1, Len(matching))
        replay_mode == IF subscription.explicit_cursor THEN "resume" ELSE "replay"
    IN  [events |-> [i \in 1..Len(kept) |->
                        [kept[i] EXCEPT !.replay = [mode |-> replay_mode,
                                                    requested_cursor |-> Some(subscription.cursor),
                                                    batch |-> Some(Len(kept))]]],
         dropped_count |-> dropped_count]

keepalive_event(seq, sub_id, t) ==
    next_event(seq, "stream.keepalive", "stream", sub_id,
               [intervalMs |-> KEEPALIVE_INTERVAL_MS], t)

backpressure_event(seq, sub_id, dropped_count, t) ==
    next_event(seq, "error.raised", "stream", sub_id,
               [code |-> "BACKPRESSURE_DROPPED", dropped |-> dropped_count, retryable |-> TRUE], t)

\* push_history that never evicts
push_history_NoEvict(hist, event) == Append(hist, event)

\* history after publish pushes an event
push_history(hist, event) ==
    Append(IF Len(hist) >= HISTORY_LIMIT THEN Tail(hist) ELSE hist, event)

\* ------------------------------------------------------------------------
\* Initial state: RpcRuntime::with_components on an empty workspace
\* ------------------------------------------------------------------------
task_vars == <<tasks, queue_counter, last_op>>
bus_vars == <<sequence, subscription_counter, history, subscriptions, minted>>
stream_vars == <<sequence, subscription_counter, history, subscriptions, minted, conn>>
rpc_vars == <<entries, reqs>>
vars == <<now, auth, merge_queue, tasks, queue_counter, last_op, sequence, subscription_counter,
          history, subscriptions, minted, conn, entries, reqs>>

EmptyMap == [x \in {} |-> x]

\* request slots, in arrival order
ReqIds == 1..MaxRequests

IdleReq ==
    [pc |-> "idle", input |-> None, idem |-> None, started_at |-> 0, prior |-> {},
     result |-> None, dispatched |-> FALSE, response |-> None, done_at |-> 0, fs |-> None]

ClosedConn ==
    [pc |-> "closed", subscription_id |-> None, principal |-> "", header |-> None,
     replay |-> <<>>, dropped_count |-> 0, sent |-> <<>>, rx |-> <<>>, lagged |-> 0]

Init ==
    /\ now = 0
    /\ auth \in Authenticators
    /\ merge_queue = EmptyMap
    /\ tasks = EmptyMap
    /\ queue_counter = 0
    /\ last_op = [op |-> "none", id |-> "", err |-> None]
    /\ sequence = 0
    /\ subscription_counter = 0
    /\ history = <<>>
    /\ subscriptions = EmptyMap
    /\ minted = <<>>
    /\ conn = ClosedConn
    /\ entries = EmptyMap
    /\ reqs = [r \in ReqIds |-> IdleReq]

Tick ==
    /\ now < MaxNow
    /\ now' = now + 1
    /\ UNCHANGED <<auth, merge_queue, task_vars, stream_vars, rpc_vars>>

\* ------------------------------------------------------------------------
\* Task domain calls, one action per TaskDomain method
\* ------------------------------------------------------------------------
TaskStep(op, id, r) ==
    /\ r.queue_counter <= MaxQueueCounter
    /\ tasks' = r.tasks
    /\ queue_counter' = r.queue_counter
    /\ last_op' = [op |-> op, id |-> id, err |-> r.err]
    /\ UNCHANGED <<now, auth, merge_queue, stream_vars, rpc_vars>>

\* ids a client can name; an id names an unknown task while it is not stored
AnyTaskId == TaskIds
OptOf(S) == {None} \cup {Some(x) : x \in S}

\* task.create params; an absent status stands for "open" (unwrap_or_else)
CreateParams ==
    [id : TaskIds, title : TitleInputs, status : OptOf(StatusInputs \ {"open"}),
     priority : {None}, blocked_by : OptOf(BlockerInputs),
     auto_execute : AutoExecuteInputs]

\* task.update patches: the empty patch and every patch of one field
UpdateInputs ==
    {i \in [id : AnyTaskId, title : OptOf(TitleInputs), status : OptOf(StatusInputs),
             priority : OptOf(PriorityInputs), blocked_by : OptOf(OptOf(BlockerInputs))] :
        Cardinality({f \in {"title", "status", "priority", "blocked_by"} : i[f] /= None}) <= 1}

TaskCreate == \E p \in CreateParams : TaskStep("create", p.id, create(tasks, queue_counter, p, now))
TaskUpdate == \E i \in UpdateInputs : TaskStep("update", i.id, update(tasks, queue_counter, i, now))
TaskClose == \E id \in AnyTaskId : TaskStep("close", id, close(tasks, queue_counter, id, now))
TaskArchive == \E id \in AnyTaskId : TaskStep("archive", id, archive(tasks, queue_counter, id, now))
TaskUnarchive == \E id \in AnyTaskId : TaskStep("unarchive", id, unarchive(tasks, queue_counter, id, now))
TaskDelete == \E id \in AnyTaskId : TaskStep("delete", id, delete(tasks, queue_counter, id))
TaskClear == TaskStep("clear", "", clear(tasks, queue_counter))
TaskRun == \E id \in AnyTaskId : TaskStep("run", id, run(tasks, queue_counter, id, now))
TaskRunAll == TaskStep("run_all", "", run_all(tasks, queue_counter, now))
TaskRetry == \E id \in AnyTaskId : TaskStep("retry", id, retry(tasks, queue_counter, id, now))
TaskCancel == \E id \in AnyTaskId : TaskStep("cancel", id, cancel(tasks, queue_counter, id, now))

NextTask ==
    \/ TaskCreate
    \/ TaskUpdate
    \/ TaskClose
    \/ TaskArchive
    \/ TaskUnarchive
    \/ TaskDelete
    \/ TaskClear
    \/ TaskRun
    \/ TaskRunAll
    \/ TaskRetry
    \/ TaskCancel

InitTask == Init /\ auth = "trusted_local"

\* the task domain on its own, all calls within one clock reading
SpecTask == InitTask /\ [][NextTask]_vars

\* ------------------------------------------------------------------------
\* Stream RPCs and publish (stream_domain/mod.rs), one action per method
\* ------------------------------------------------------------------------
TaskTopic == "task.status.changed"
LoopTopic == "loop.merge.progress"

\* stream.subscribe params: valid ones, two of them with a filter that
\* excludes events of a subscribed topic, then one invalid field each
SubscribeInputs ==
    {[topics |-> <<TaskTopic>>, cursor |-> None, replay_limit |-> None, filters |-> None],
     [topics |-> <<TaskTopic, LoopTopic, TaskTopic>>, cursor |-> Some(format_cursor(0, 0)),
      replay_limit |-> Some(1), filters |-> None],
     [topics |-> <<TaskTopic, LoopTopic>>, cursor |-> Some(format_cursor(0, 0)),
      replay_limit |-> None,
      filters |-> Some([resourceIds |-> JArr(<<JStr("t1"), JStr(" ")>>)])],
     [topics |-> <<TaskTopic, LoopTopic>>, cursor |-> None, replay_limit |-> None,
      filters |-> Some([resourceTypes |-> JArr(<<JStr("loop")>>)])],
     [topics |-> <<>>, cursor |-> None, replay_limit |-> None, filters |-> None],
     [topics |-> <<"no.such.topic">>, cursor |-> None, replay_limit |-> None, filters |-> None],
     [topics |-> <<TaskTopic>>, cursor |-> Some(<<"x">>), replay_limit |-> None, filters |-> None],
     [topics |-> <<TaskTopic>>, cursor |-> None, replay_limit |-> None,
      filters |-> Some([resourceType |-> JStr("task"), taskId |-> JNum])]}
\* stream.ack cursors: valid ones, one without '-', one without digits
AckCursorInputs ==
    {format_cursor(0, 1), format_cursor(0, 2), <<"x">>, <<"3", "-">>}
UnknownSubscriptionId == subscription_id(0, 0)
SubscriptionIdInputs == DOMAIN subscriptions \cup {UnknownSubscriptionId}

\* events the RPC side effects and other publishers hand to publish
PublishInputs ==
    {[topic |-> TaskTopic, kind |-> "task", id |-> "t1"],
     [topic |-> LoopTopic, kind |-> "loop", id |-> "l1"],
     [topic |-> "no.such.topic", kind |-> "task", id |-> "t1"]}

\* tokio broadcast send to the connection's receiver, if it has one
live_send(c, event) ==
    IF c.pc /= "live" THEN c
    ELSE IF Len(c.rx) >= LIVE_BUFFER_CAPACITY
         THEN [c EXCEPT !.rx = Append(Tail(c.rx), event), !.lagged = c.lagged + 1]
         ELSE [c EXCEPT !.rx = Append(c.rx, event)]

\* stream.subscribe behind the pipeline's authorize gate.  The code reads
\* latest_cursor_or_now in a critical section of its own before it inserts;
\* a publish between the two leaves the state that the same publish right
\* after the insert leaves, so the two sections are one step here.
StreamSubscribe ==
    \E header \in HeaderInputs, params \in SubscribeInputs :
        LET principal == authorize(auth, header, None)
            record == IF principal = None THEN None
                      ELSE subscribe_record(params, Unwrap(principal), history, now)
        IN  /\ subscription_counter < MaxSubscriptions
            /\ IF record = None
               THEN UNCHANGED <<subscription_counter, subscriptions>>
               ELSE /\ subscription_counter' = subscription_counter + 1
                    /\ subscriptions' =
                         [id \in DOMAIN subscriptions \cup {subscription_id(now, subscription_counter + 1)} |->
                             IF id \in DOMAIN subscriptions THEN subscriptions[id] ELSE Unwrap(record)]
            /\ UNCHANGED <<now, auth, merge_queue, task_vars, rpc_vars, sequence, history, minted, conn>>

\* StreamDomain::unsubscribe
unsubscribe(subs, id) ==
    IF id \in DOMAIN subs
    THEN [subscriptions |-> [x \in DOMAIN subs \ {id} |-> subs[x]], err |-> None]
    ELSE [subscriptions |-> subs, err |-> Some("NOT_FOUND")]

StreamUnsubscribe ==
    \E id \in SubscriptionIdInputs :
        /\ subscriptions' = unsubscribe(subscriptions, id).subscriptions
        /\ UNCHANGED <<now, auth, merge_queue, task_vars, rpc_vars, sequence, subscription_counter, history, minted, conn>>

\* ack that moves the cursor and leaves explicit_cursor as it was
ack_CursorOnly(subs, id, cursor) ==
    IF ~validate_cursor(cursor) THEN [subscriptions |-> subs, err |-> Some("INVALID_PARAMS")]
    ELSE IF id \notin DOMAIN subs THEN [subscriptions |-> subs, err |-> Some("NOT_FOUND")]
    ELSE IF cursor_is_older(cursor, subs[id].cursor)
    THEN [subscriptions |-> subs, err |-> Some("PRECONDITION_FAILED")]
    ELSE [subscriptions |-> [subs EXCEPT ![id] = [@ EXCEPT !.cursor = cursor]],
          err |-> None]

\* StreamDomain::ack
ack(subs, id, cursor) ==
    IF ~validate_cursor(cursor) THEN [subscriptions |-> subs, err |-> Some("INVALID_PARAMS")]
    ELSE IF id \notin DOMAIN subs THEN [subscriptions |-> subs, err |-> Some("NOT_FOUND")]
    ELSE IF cursor_is_older(cursor, subs[id].cursor)
    THEN [subscriptions |-> subs, err |-> Some("PRECONDITION_FAILED")]
    ELSE [subscriptions |-> [subs EXCEPT ![id] = [@ EXCEPT !.cursor = cursor, !.explicit_cursor = TRUE]],
          err |-> None]

StreamAck ==
    \E id \in SubscriptionIdInputs, cursor \in AckCursorInputs :
        /\ subscriptions' = ack(subscriptions, id, cursor).subscriptions
        /\ UNCHANGED <<now, auth, merge_queue, task_vars, rpc_vars, sequence, subscription_counter, history, minted, conn>>

Publish ==
    \E e \in PublishInputs :
        /\ sequence < MaxSequence
        /\ IF e.topic \notin STREAM_TOPICS
           THEN UNCHANGED <<sequence, history, minted, conn>>
           ELSE LET event == next_event(sequence, e.topic, e.kind, e.id, "payload", now)
                IN  /\ sequence' = sequence + 1
                    /\ minted' = Append(minted, event.sequence)
                    /\ history' = push_history(history, event)
                    /\ conn' = live_send(conn, event)
        /\ UNCHANGED <<now, auth, merge_queue, task_vars, rpc_vars, subscription_counter, subscriptions>>

\* ------------------------------------------------------------------------
\* Stream transport (transport.rs): stream_handler and stream_connection
\* ------------------------------------------------------------------------
ConnFrame == <<now, auth, merge_queue, task_vars, rpc_vars, subscription_counter, subscriptions>>

\* stream_handler: authenticate, then hand the socket to stream_connection
ConnUpgrade ==
    \E header \in HeaderInputs, id \in OptOf(SubscriptionIdInputs) :
        LET principal == authenticate_websocket(auth, header)
        IN  /\ conn.pc = "closed"
            /\ conn' = IF principal = None
                       THEN [ClosedConn EXCEPT !.header = header]
                       ELSE [ClosedConn EXCEPT !.pc = "upgraded", !.subscription_id = id,
                                               !.principal = Unwrap(principal), !.header = header]
            /\ UNCHANGED <<ConnFrame, sequence, history, minted>>

\* the subscriptionId and has_subscription guards
ConnCheckSubscription ==
    /\ conn.pc = "upgraded"
    /\ conn' = IF conn.subscription_id = None THEN [conn EXCEPT !.pc = "closed"]
               ELSE IF Unwrap(conn.subscription_id) \notin DOMAIN subscriptions
               THEN [conn EXCEPT !.pc = "closed"]
               ELSE [conn EXCEPT !.pc = "has_sub"]
    /\ UNCHANGED <<ConnFrame, sequence, history, minted>>

get_subscription_principal(id) ==
    IF id \in DOMAIN subscriptions THEN Some(subscriptions[id].principal) ELSE None

\* the principal guard
ConnCheckPrincipal ==
    /\ conn.pc = "has_sub"
    /\ conn' = IF get_subscription_principal(Unwrap(conn.subscription_id)) /= Some(conn.principal)
               THEN [conn EXCEPT !.pc = "closed"]
               ELSE [conn EXCEPT !.pc = "authorized"]
    /\ UNCHANGED <<ConnFrame, sequence, history, minted>>

\* ConnReplay that moves the subscription's cursor to the last event of the
\* batch it computed
ConnReplay_Acknowledges ==
    /\ conn.pc = "authorized"
    /\ LET id == Unwrap(conn.subscription_id)
       IN  IF id \notin DOMAIN subscriptions
           THEN conn' = [conn EXCEPT !.pc = "closed"] /\ UNCHANGED subscriptions
           ELSE LET batch == replay_batch(subscriptions[id], history)
                IN  /\ conn' = [conn EXCEPT !.pc = "replayed", !.replay = batch.events,
                                            !.dropped_count = batch.dropped_count]
                    /\ subscriptions' =
                         IF batch.events = <<>> THEN subscriptions
                         ELSE [subscriptions EXCEPT
                                 ![id].cursor = batch.events[Len(batch.events)].cursor]
    /\ UNCHANGED <<now, auth, merge_queue, task_vars, rpc_vars, subscription_counter,
                   sequence, history, minted>>

ConnReplay ==
    /\ conn.pc = "authorized"
    /\ conn' = IF Unwrap(conn.subscription_id) \notin DOMAIN subscriptions
               THEN [conn EXCEPT !.pc = "closed"]
               ELSE LET batch == replay_batch(subscriptions[Unwrap(conn.subscription_id)], history)
                    IN  [conn EXCEPT !.pc = "replayed", !.replay = batch.events,
                                     !.dropped_count = batch.dropped_count]
    /\ UNCHANGED <<ConnFrame, sequence, history, minted>>

\* the frames of the backpressure notice and the replay batch, in send order
replay_frames(notice, replay) == notice \o replay

\* send the backpressure notice and the replay batch, then take the live
\* receiver; a send error after n frames ends the connection
ConnSendReplay ==
    /\ conn.pc = "replayed"
    /\ conn.dropped_count > 0 => sequence < MaxSequence
    /\ LET notice == IF conn.dropped_count > 0
                     THEN <<backpressure_event(sequence, Unwrap(conn.subscription_id),
                                               conn.dropped_count, now)>>
                     ELSE <<>>
           frames == replay_frames(notice, conn.replay)
       IN  /\ sequence' = sequence + Len(notice)
           /\ minted' = IF notice = <<>> THEN minted ELSE Append(minted, notice[1].sequence)
           /\ \E n \in 0..Len(frames) :
                conn' = IF n < Len(frames)
                        THEN [conn EXCEPT !.pc = "closed", !.sent = SubSeq(frames, 1, n)]
                        ELSE [conn EXCEPT !.pc = "live", !.sent = frames, !.rx = <<>>, !.lagged = 0]
    /\ UNCHANGED <<ConnFrame, history>>

\* the ticker arm of the select loop
ConnKeepalive ==
    /\ conn.pc = "live"
    /\ sequence < MaxSequence
    /\ LET keepalive == keepalive_event(sequence, Unwrap(conn.subscription_id), now)
       IN  /\ sequence' = sequence + 1
           /\ minted' = Append(minted, keepalive.sequence)
           /\ \E sent_ok \in BOOLEAN :
                conn' = IF sent_ok THEN [conn EXCEPT !.sent = Append(conn.sent, keepalive)]
                        ELSE [conn EXCEPT !.pc = "closed"]
    /\ UNCHANGED <<ConnFrame, history>>

\* matches_subscription that lets events through once the subscription is gone
matches_subscription_PassWhenGone(id, event) ==
    id \notin DOMAIN subscriptions \/ subscription_matches(subscriptions[id], event)

matches_subscription(id, event) ==
    id \in DOMAIN subscriptions /\ subscription_matches(subscriptions[id], event)

\* the live_rx.recv() arm of the select loop
ConnLiveRecv ==
    /\ conn.pc = "live"
    /\ IF conn.lagged > 0
       THEN /\ sequence < MaxSequence
            /\ LET event == backpressure_event(sequence, Unwrap(conn.subscription_id), conn.lagged, now)
               IN  /\ sequence' = sequence + 1
                   /\ minted' = Append(minted, event.sequence)
                   /\ \E sent_ok \in BOOLEAN :
                        conn' = IF sent_ok
                                THEN [conn EXCEPT !.sent = Append(conn.sent, event), !.lagged = 0]
                                ELSE [conn EXCEPT !.pc = "closed"]
       ELSE /\ conn.rx /= <<>>
            /\ UNCHANGED <<sequence, minted>>
            /\ LET event == Head(conn.rx)
               IN  IF matches_subscription(Unwrap(conn.subscription_id), event)
                   THEN \E sent_ok \in BOOLEAN :
                          conn' = IF sent_ok
                                  THEN [conn EXCEPT !.sent = Append(conn.sent, event), !.rx = Tail(conn.rx)]
                                  ELSE [conn EXCEPT !.pc = "closed"]
                   ELSE conn' = [conn EXCEPT !.rx = Tail(conn.rx)]
    /\ UNCHANGED <<ConnFrame, history>>

\* the socket.next() arm: Close, end of stream or a transport error
ConnSocketClose ==
    /\ conn.pc = "live"
    /\ conn' = [conn EXCEPT !.pc = "closed"]
    /\ UNCHANGED <<ConnFrame, sequence, history, minted>>

NextStream ==
    \/ StreamSubscribe
    \/ StreamUnsubscribe
    \/ StreamAck
    \/ Publish
    \/ ConnUpgrade
    \/ ConnCheckSubscription
    \/ ConnCheckPrincipal
    \/ ConnReplay
    \/ ConnSendReplay
    \/ ConnKeepalive
    \/ ConnLiveRecv
    \/ ConnSocketClose

\* the bus, the stream RPCs and one connection, within one clock reading
SpecStream == Init /\ [][NextStream]_vars

\* ------------------------------------------------------------------------
\* Request pipeline (runtime.rs handle_http_request, runtime/dispatch.rs)
\* ------------------------------------------------------------------------
CreateA ==
    [id |-> "t1", title |-> "a", status |-> None, priority |-> None, blocked_by |-> None,
     auto_execute |-> Some(FALSE)]
CreateB == [CreateA EXCEPT !.title = "b"]
BearerSecret == Some([scheme |-> "Bearer", token |-> "secret"])

\* what the parsing steps find in a body: whether it is JSON, whether the
\* JSON value is an object, whether it has a string 'method', the verdict of
\* the embedded request schema, whether it deserializes into
\* RpcRequestEnvelope, and its apiVersion
WellFormed ==
    [json |-> TRUE, object |-> TRUE, has_method |-> TRUE, schema_ok |-> TRUE,
     envelope_ok |-> TRUE, api_version |-> "v1"]

\* requests a client sends: the body (raw, method, meta.idempotencyKey,
\* params, meta.auth) and the Authorization header
RpcInputs ==
    {[method |-> "task.create", key |-> Some("k1"), params |-> CreateA, header |-> BearerSecret,
      meta_auth |-> None, raw |-> WellFormed],
     [method |-> "task.create", key |-> Some("k1"), params |-> CreateB, header |-> BearerSecret,
      meta_auth |-> None, raw |-> WellFormed],
     [method |-> "task.close", key |-> Some("k1"), params |-> [id |-> "t1"], header |-> BearerSecret,
      meta_auth |-> None, raw |-> WellFormed],
     [method |-> "task.create", key |-> None, params |-> CreateA, header |-> BearerSecret,
      meta_auth |-> None, raw |-> WellFormed],
     [method |-> "task.get", key |-> None, params |-> [id |-> "t1"], header |-> BearerSecret,
      meta_auth |-> None, raw |-> WellFormed],
     [method |-> "task.close", key |-> Some("k1"), params |-> [id |-> "t1"], header |-> None,
      meta_auth |-> None, raw |-> WellFormed]}

\* the request id of an ApiError that was given no context ("unknown")
UnknownRequestId == 0

parse_json_value(input) == IF input.raw.json THEN Some(input) ELSE None

\* (request id, method) read from the raw value for the error envelope; r is
\* the id the body carries
request_context(input, r) ==
    [request_id |-> IF input.raw.object THEN r ELSE UnknownRequestId,
     method |-> IF input.raw.object /\ input.raw.has_method THEN Some(input.method) ELSE None]

\* the verdict of the JSON schema compiled from data/rpc-v1-schema.json
validate_request_schema(input) == input.raw.schema_ok

\* serde deserialization into RpcRequestEnvelope
parse_request(input) == IF input.raw.envelope_ok THEN Some(input) ELSE None

GateErr(code, request_id, method) == [err |-> Some(code), request_id |-> request_id, method |-> method]

\* parse_and_validate_request with the schema consulted before the method
\* catalog
parse_and_validate_request_SchemaFirst(input, r) ==
    LET ctx == request_context(input, r)
    IN  IF parse_json_value(input) = None THEN GateErr("INVALID_REQUEST", UnknownRequestId, None)
        ELSE IF ~input.raw.object THEN GateErr("INVALID_REQUEST", ctx.request_id, ctx.method)
        ELSE IF ctx.method = None THEN GateErr("INVALID_REQUEST", ctx.request_id, None)
        ELSE IF ~validate_request_schema(input)
             THEN GateErr("INVALID_PARAMS", ctx.request_id, ctx.method)
        ELSE IF ~is_known_method(Unwrap(ctx.method))
             THEN GateErr("METHOD_NOT_FOUND", ctx.request_id, ctx.method)
        ELSE IF parse_request(input) = None
             THEN GateErr("INVALID_REQUEST", ctx.request_id, ctx.method)
        ELSE IF input.raw.api_version /= API_VERSION
             THEN GateErr("INVALID_REQUEST", ctx.request_id, ctx.method)
        ELSE [err |-> None, request_id |-> ctx.request_id, method |-> ctx.method]

\* Err(ApiError with its context) or Ok(request)
parse_and_validate_request(input, r) ==
    LET ctx == request_context(input, r)
    IN  IF parse_json_value(input) = None THEN GateErr("INVALID_REQUEST", UnknownRequestId, None)
        ELSE IF ~input.raw.object THEN GateErr("INVALID_REQUEST", ctx.request_id, ctx.method)
        ELSE IF ctx.method = None THEN GateErr("INVALID_REQUEST", ctx.request_id, None)
        ELSE IF ~is_known_method(Unwrap(ctx.method))
             THEN GateErr("METHOD_NOT_FOUND", ctx.request_id, ctx.method)
        ELSE IF ~validate_request_schema(input)
             THEN GateErr("INVALID_PARAMS", ctx.request_id, ctx.method)
        ELSE IF parse_request(input) = None
             THEN GateErr("INVALID_REQUEST", ctx.request_id, ctx.method)
        ELSE IF input.raw.api_version /= API_VERSION
             THEN GateErr("INVALID_REQUEST", ctx.request_id, ctx.method)
        ELSE [err |-> None, request_id |-> ctx.request_id, method |-> ctx.method]

get(T, qc, id) == IF id \in DOMAIN T THEN Ok(T, qc, T[id]) ELSE Err(T, qc, "TASK_NOT_FOUND")

\* dispatch_task for the methods of the request inputs; the result is
\* json!(result) for task.run and task.run_all, json!({ "task": task }) for
\* the others
dispatch_task(method, params, T, qc, t) ==
    IF method = "task.run_all" THEN run_all(T, qc, t)
    ELSE IF method = "task.run" THEN run(T, qc, params.id, t)
    ELSE LET r == CASE method = "task.create" -> create(T, qc, params, t)
                    [] method = "task.close" -> close(T, qc, params.id, t)
                    [] OTHER -> get(T, qc, params.id)
         IN  IF IsSome(r.err) THEN r ELSE Ok(r.tasks, r.queue_counter, [task |-> r.result])

\* the id a request names, "" for a method without one
ParamId(params) == IF "id" \in DOMAIN params THEN params.id ELSE ""

\* Some(task of the result) when the result holds a task with id and status
task_id_and_status(result) ==
    IF "task" \in DOMAIN result THEN Some([id |-> result.task.id, status |-> result.task.status])
    ELSE None

\* publish_rpc_side_effect without task.run in the task arm
rpc_side_effect_RunUnmapped(method, params, result) ==
    LET task == task_id_and_status(result)
    IN  IF method = "task.create"
        THEN IF task = None THEN None
             ELSE Some([topic |-> TaskTopic, kind |-> "task", id |-> Unwrap(task).id,
                        payload |-> [from |-> "none", to |-> Unwrap(task).status]])
        ELSE IF method \in {"task.update", "task.close", "task.cancel", "task.retry"}
        THEN IF task = None THEN None
             ELSE Some([topic |-> TaskTopic, kind |-> "task", id |-> Unwrap(task).id,
                        payload |-> [from |-> "unknown", to |-> Unwrap(task).status]])
        ELSE IF method = "loop.merge"
        THEN Some([topic |-> LoopTopic, kind |-> "loop", id |-> params.id,
                   payload |-> [loopId |-> params.id, stage |-> "merged"]])
        ELSE None

\* publish_rpc_side_effect: Some(event to publish) or None
rpc_side_effect(method, params, result) ==
    LET task == task_id_and_status(result)
    IN  IF method = "task.create"
        THEN IF task = None THEN None
             ELSE Some([topic |-> TaskTopic, kind |-> "task", id |-> Unwrap(task).id,
                        payload |-> [from |-> "none", to |-> Unwrap(task).status]])
        ELSE IF method \in {"task.update", "task.close", "task.cancel", "task.retry", "task.run"}
        THEN IF task = None THEN None
             ELSE Some([topic |-> TaskTopic, kind |-> "task", id |-> Unwrap(task).id,
                        payload |-> [from |-> "unknown", to |-> Unwrap(task).status]])
        ELSE IF method = "loop.merge"
        THEN Some([topic |-> LoopTopic, kind |-> "loop", id |-> params.id,
                   payload |-> [loopId |-> params.id, stage |-> "merged"]])
        ELSE None

\* where dispatch goes after the handler's arm: publish_rpc_side_effect is
\* called for an Ok result of a method outside stream.*
after_arm_OnError(method, err) == IF method \notin StreamMethods THEN "publish" ELSE "store"

after_arm(method, err) ==
    IF err = None /\ method \notin StreamMethods THEN "publish" ELSE "store"

\* a request whose response is decided
Done(req, response, t) == [req EXCEPT !.pc = "done", !.response = Some(response), !.done_at = t]

\* handle_http_request up to and including idempotency.check, for a request
\* drawn from Inputs
Receive(Inputs) ==
    \E r \in ReqIds, input \in Inputs :
        LET req == [IdleReq EXCEPT !.input = Some(input), !.started_at = now,
                                   !.prior = {x \in ReqIds : reqs[x].pc = "done"}]
            parsed == parse_and_validate_request(input, r)
            principal == authorize(auth, input.header, input.meta_auth)
            checked == check(entries, input.method, Unwrap(input.key), input.params, now)
        IN  /\ reqs[r].pc = "idle"
            /\ \A x \in ReqIds : x < r => reqs[x].pc /= "idle"
            /\ IF parsed.err /= None
               THEN /\ reqs' = [reqs EXCEPT ![r] =
                                  Done(req, error_response(parsed.request_id,
                                                           IF parsed.method = None THEN None
                                                           ELSE Unwrap(parsed.method),
                                                           Unwrap(parsed.err), now), now)]
                    /\ UNCHANGED entries
               ELSE IF principal = None
               THEN /\ reqs' = [reqs EXCEPT ![r] =
                                  Done(req, error_response(r, input.method, "UNAUTHORIZED", now), now)]
                    /\ UNCHANGED entries
               ELSE IF ~is_mutating_method(input.method)
               THEN /\ reqs' = [reqs EXCEPT ![r] = [req EXCEPT !.pc = "dispatch"]]
                    /\ UNCHANGED entries
               ELSE IF input.key = None
               THEN /\ reqs' = [reqs EXCEPT ![r] =
                                  Done(req, error_response(r, input.method, "INVALID_PARAMS", now), now)]
                    /\ UNCHANGED entries
               ELSE /\ entries' = checked.entries
                    /\ reqs' = [reqs EXCEPT ![r] =
                         LET seen == [req EXCEPT !.idem = Some(checked.outcome)]
                         IN  CASE checked.outcome = "Replay" ->
                                    Done(seen, Unwrap(checked.response), now)
                               [] checked.outcome = "Conflict" ->
                                    Done(seen, error_response(r, input.method,
                                                              "IDEMPOTENCY_CONFLICT", now), now)
                               [] OTHER -> [seen EXCEPT !.pc = "dispatch"]]
            /\ UNCHANGED <<now, auth, merge_queue, task_vars, stream_vars>>

RpcReceive == Receive(RpcInputs)

\* dispatch_task: the domain call of a request at position pc, made under the
\* task-domain lock, which is released when the call returns
TaskCallAt(pc) ==
    \E r \in ReqIds :
        LET input == Unwrap(reqs[r].input)
            out == dispatch_task(input.method, input.params, tasks, queue_counter, now)
        IN  /\ reqs[r].pc = pc
            /\ input.method \in TaskMethods
            /\ out.queue_counter <= MaxQueueCounter
            /\ tasks' = out.tasks
            /\ queue_counter' = out.queue_counter
            /\ last_op' = [op |-> input.method, id |-> ParamId(input.params), err |-> out.err]
            /\ reqs' = [reqs EXCEPT ![r] =
                          [@ EXCEPT !.pc = after_arm(input.method, out.err),
                                    !.dispatched = TRUE,
                                    !.result = Some([err |-> out.err, result |-> out.result])]]
            /\ UNCHANGED <<now, auth, merge_queue, stream_vars, entries>>

\* dispatch: lock, domain call and unlock as one step
RpcDispatch == TaskCallAt("dispatch")

\* dispatch: publish_rpc_side_effect after a successful domain call
RpcPublish ==
    \E r \in ReqIds :
        LET input == Unwrap(reqs[r].input)
            effect == rpc_side_effect(input.method, input.params, Unwrap(reqs[r].result).result)
        IN  /\ reqs[r].pc = "publish"
            /\ reqs' = [reqs EXCEPT ![r] = [@ EXCEPT !.pc = "store"]]
            /\ IF effect = None
               THEN UNCHANGED <<sequence, history, minted, conn>>
               ELSE LET e == Unwrap(effect)
                        event == next_event(sequence, e.topic, e.kind, e.id, e.payload, now)
                    IN  /\ sequence < MaxSequence
                        /\ sequence' = sequence + 1
                        /\ minted' = Append(minted, event.sequence)
                        /\ history' = push_history(history, event)
                        /\ conn' = live_send(conn, event)
            /\ UNCHANGED <<now, auth, merge_queue, task_vars, subscription_counter, subscriptions, entries>>

\* the envelope is built, stored under the idempotency key if there is one,
\* and returned
RpcStore ==
    \E r \in ReqIds :
        LET input == Unwrap(reqs[r].input)
            out == Unwrap(reqs[r].result)
            response == IF out.err = None
                        THEN success_response(r, input.method, out.result, now)
                        ELSE error_response(r, input.method, Unwrap(out.err), now)
        IN  /\ reqs[r].pc = "store"
            /\ entries' = IF reqs[r].idem = None THEN entries
                          ELSE store(entries, input.method, Unwrap(input.key), input.params,
                                     response, now)
            /\ reqs' = [reqs EXCEPT ![r] = Done(@, response, now)]
            /\ UNCHANGED <<now, auth, merge_queue, task_vars, stream_vars>>

NextRpc ==
    \/ Tick
    \/ RpcReceive
    \/ RpcDispatch
    \/ RpcPublish
    \/ RpcStore

InitRpc == Init /\ auth = "token"

\* overlapping HTTP requests in a token-mode runtime, with the clock running
SpecRpc == InitRpc /\ [][NextRpc]_vars

\* ------------------------------------------------------------------------
\* The request gates of handle_http_request (runtime.rs, auth.rs)
\* ------------------------------------------------------------------------
Get == [method |-> "task.get", key |-> None, params |-> [id |-> "t1"], header |-> BearerSecret,
        meta_auth |-> None, raw |-> WellFormed]
CreateNoKey == [Get EXCEPT !.method = "task.create", !.params = CreateA]
MetaToken(token) == Some([mode |-> "token", token |-> token])

\* bodies with one or several defects: a body that is not JSON, a JSON array,
\* an object without 'method', an unknown method, a schema violation, an
\* envelope that does not deserialize, a foreign apiVersion; then requests
\* without credentials and without idempotency key
DefectInputs ==
    {[Get EXCEPT !.header = None,
                 !.raw = [json |-> FALSE, object |-> FALSE, has_method |-> FALSE,
                          schema_ok |-> FALSE, envelope_ok |-> FALSE, api_version |-> ""]],
     [Get EXCEPT !.raw = [WellFormed EXCEPT !.object = FALSE, !.has_method = FALSE,
                                            !.schema_ok = FALSE, !.envelope_ok = FALSE]],
     [Get EXCEPT !.raw = [WellFormed EXCEPT !.has_method = FALSE, !.schema_ok = FALSE,
                                            !.envelope_ok = FALSE]],
     [Get EXCEPT !.method = "task.bogus", !.header = None,
                 !.raw = [WellFormed EXCEPT !.schema_ok = FALSE, !.api_version = "v2"]],
     [CreateNoKey EXCEPT !.header = None,
                         !.raw = [WellFormed EXCEPT !.schema_ok = FALSE, !.envelope_ok = FALSE,
                                                    !.api_version = "v2"]],
     [Get EXCEPT !.header = None, !.raw = [WellFormed EXCEPT !.envelope_ok = FALSE]],
     [CreateNoKey EXCEPT !.header = None, !.raw = [WellFormed EXCEPT !.api_version = "v2"]],
     [CreateNoKey EXCEPT !.header = None],
     CreateNoKey}

\* credentials in the Authorization header and in meta.auth
CredentialInputs ==
    {[Get EXCEPT !.header = None],
     Get,
     [Get EXCEPT !.header = Some([scheme |-> "Bearer", token |-> "wrong"])],
     [Get EXCEPT !.header = Some([scheme |-> "bearer", token |-> "secret"])],
     [Get EXCEPT !.header = Some([scheme |-> "Basic", token |-> "secret"])],
     [Get EXCEPT !.header = None, !.meta_auth = MetaToken(Some("secret"))],
     [Get EXCEPT !.header = None, !.meta_auth = MetaToken(Some("wrong"))],
     [Get EXCEPT !.header = None, !.meta_auth = MetaToken(None)],
     [Get EXCEPT !.header = None,
                 !.meta_auth = Some([mode |-> "trusted_local", token |-> Some("secret")])],
     [Get EXCEPT !.header = Some([scheme |-> "Bearer", token |-> "wrong"]),
                 !.meta_auth = MetaToken(Some("secret"))]}

GateInputs ==
    DefectInputs \cup CredentialInputs
    \cup {[CreateNoKey EXCEPT !.key = Some("k1")],
          [CreateNoKey EXCEPT !.key = Some("k1"), !.header = None,
                              !.meta_auth = MetaToken(Some("secret"))]}

GateReceive == Receive(GateInputs)

NextGate ==
    \/ GateReceive
    \/ RpcDispatch
    \/ RpcPublish
    \/ RpcStore

InitGate == Init /\ auth \in {"trusted_local", "token"}

\* well-formed and defective requests against a trusted-local and a
\* token-mode runtime, all within one clock reading
SpecGate == InitGate /\ [][NextGate]_vars

\* ------------------------------------------------------------------------
\* Domain locks taken by dispatch (runtime.rs, runtime/dispatch.rs)
\* ------------------------------------------------------------------------
\* domain_locks with the two locks of loop.trigger_merge_task taken in the
\* opposite order
domain_locks_TaskFirst(method) ==
    IF method = "loop.trigger_merge_task" THEN <<"task", "loop">>
    ELSE IF method \in TaskMethods THEN <<"task">>
    ELSE IF method \in LoopMethods THEN <<"loop">>
    ELSE IF method \in PlanningMethods THEN <<"planning">>
    ELSE IF method \in CollectionMethods THEN <<"collection">>
    ELSE <<>>

\* the domain mutexes a handler locks, in the order it locks them; the
\* guards live until the handler's arm returns
domain_locks(method) ==
    IF method = "loop.trigger_merge_task" THEN <<"loop", "task">>
    ELSE IF method \in TaskMethods THEN <<"task">>
    ELSE IF method \in LoopMethods THEN <<"loop">>
    ELSE IF method \in PlanningMethods THEN <<"planning">>
    ELSE IF method \in CollectionMethods THEN <<"collection">>
    ELSE <<>>

LocksOf(req) == IF req.input = None THEN <<>> ELSE domain_locks(Unwrap(req.input).method)

\* number of domain locks a request holds at its position
HeldCount(req) == CASE req.pc = "locked_1" -> 1 [] req.pc = "locked_2" -> 2 [] OTHER -> 0

Holds(req) == {LocksOf(req)[i] : i \in 1..HeldCount(req)}

\* the lock a request is about to take: its next domain lock, or the
\* event-bus lock of publish_rpc_side_effect
WaitsFor(req) ==
    IF req.pc \in {"dispatch", "locked_1"} /\ HeldCount(req) < Len(LocksOf(req))
    THEN Some(LocksOf(req)[HeldCount(req) + 1])
    ELSE IF req.pc = "publish" \/ (req.pc = "dispatch" /\ LocksOf(req) = <<>>)
    THEN Some("bus")
    ELSE None

LockFree(lock) == \A r \in ReqIds : lock \notin Holds(reqs[r])

\* task_domain_mut / loop_domain_mut: Mutex::lock returns once the mutex is free
LockAcquire ==
    \E r \in ReqIds :
        /\ WaitsFor(reqs[r]) \notin {None, Some("bus")}
        /\ LockFree(Unwrap(WaitsFor(reqs[r])))
        /\ reqs' = [reqs EXCEPT ![r] =
                      [@ EXCEPT !.pc = IF HeldCount(reqs[r]) = 0 THEN "locked_1" ELSE "locked_2"]]
        /\ UNCHANGED <<now, auth, merge_queue, task_vars, stream_vars, entries>>

HoldsAllLocks(req) == HeldCount(req) > 0 /\ HeldCount(req) = Len(LocksOf(req))

\* a task handler with the task-domain lock held
LockedTaskCall == TaskCallAt("locked_1")

\* a loop handler other than trigger_merge_task with the loop-domain lock
\* held; the merge queue and the loop registry are files outside this
\* model, so the call ends in any of its outcomes
LockedLoopCall ==
    \E r \in ReqIds, err \in {None, Some("LOOP_NOT_FOUND"), Some("PRECONDITION_FAILED")} :
        LET input == Unwrap(reqs[r].input)
        IN  /\ HoldsAllLocks(reqs[r])
            /\ input.method \in LoopMethods \ {"loop.trigger_merge_task"}
            /\ reqs' = [reqs EXCEPT ![r] =
                          [@ EXCEPT !.pc = after_arm(input.method, err),
                                    !.dispatched = TRUE,
                                    !.result = Some([err |-> err,
                                                     result |-> IF err = None
                                                                THEN Some([success |-> TRUE])
                                                                ELSE None])]]
            /\ UNCHANGED <<now, auth, merge_queue, task_vars, stream_vars, entries>>

\* format!("merge-{}-{}", loop_id, now)
merge_task_id(loop_id, t) ==
    CASE t = 0 -> "merge-l1-0" [] t = 1 -> "merge-l1-1" [] t = 2 -> "merge-l1-2"
      [] OTHER -> "merge-l1-3"

\* LoopDomain::trigger_merge_task on a loop that list() did or did not find
trigger_merge_task(T, qc, params, found, t) ==
    IF ~found THEN Err(T, qc, "LOOP_NOT_FOUND")
    ELSE LET created == create(T, qc, [id |-> merge_task_id(params.id, t), title |-> "Merge",
                                       status |-> Some("open"), priority |-> Some(1),
                                       blocked_by |-> None, auto_execute |-> Some(TRUE)], t)
         IN  IF IsSome(created.err) THEN created
             ELSE Ok(created.tasks, created.queue_counter,
                     [success |-> TRUE, task_id |-> created.result.id,
                      queued_task_id |-> created.result.queued_task_id])

\* loop.trigger_merge_task with the loop-domain and the task-domain lock held
LockedTriggerCall ==
    \E r \in ReqIds, found \in BOOLEAN :
        LET input == Unwrap(reqs[r].input)
            out == trigger_merge_task(tasks, queue_counter, input.params, found, now)
        IN  /\ HoldsAllLocks(reqs[r])
            /\ input.method = "loop.trigger_merge_task"
            /\ out.queue_counter <= MaxQueueCounter
            /\ tasks' = out.tasks
            /\ queue_counter' = out.queue_counter
            /\ last_op' = [op |-> input.method, id |-> input.params.id, err |-> out.err]
            /\ reqs' = [reqs EXCEPT ![r] =
                          [@ EXCEPT !.pc = after_arm(input.method, out.err),
                                    !.dispatched = TRUE,
                                    !.result = Some([err |-> out.err, result |-> out.result])]]
            /\ UNCHANGED <<now, auth, merge_queue, stream_vars, entries>>

\* dispatch_stream: the stream method of a request, on the stream state
dispatch_stream(method, params, principal, subs, counter, hist, t) ==
    IF method = "stream.subscribe"
    THEN LET record == subscribe_record(params, principal, hist, t)
             id == subscription_id(t, counter + 1)
         IN  IF record = None
             THEN [subscriptions |-> subs, subscription_counter |-> counter,
                   err |-> Some("INVALID_PARAMS")]
             ELSE [subscriptions |-> [x \in DOMAIN subs \cup {id} |->
                                        IF x = id THEN Unwrap(record) ELSE subs[x]],
                   subscription_counter |-> counter + 1, err |-> None]
    ELSE IF method = "stream.unsubscribe"
    THEN [subscriptions |-> unsubscribe(subs, params.subscription_id).subscriptions,
          subscription_counter |-> counter,
          err |-> unsubscribe(subs, params.subscription_id).err]
    ELSE [subscriptions |-> ack(subs, params.subscription_id, params.cursor).subscriptions,
          subscription_counter |-> counter,
          err |-> ack(subs, params.subscription_id, params.cursor).err]

\* dispatch of a stream.* request: the stream state lock only
StreamCall ==
    \E r \in ReqIds :
        LET input == Unwrap(reqs[r].input)
            principal == Unwrap(authorize(auth, input.header, input.meta_auth))
            out == dispatch_stream(input.method, input.params, principal, subscriptions,
                                   subscription_counter, history, now)
        IN  /\ reqs[r].pc = "dispatch"
            /\ input.method \in StreamMethods
            /\ out.subscription_counter <= MaxSubscriptions
            /\ subscriptions' = out.subscriptions
            /\ subscription_counter' = out.subscription_counter
            /\ reqs' = [reqs EXCEPT ![r] =
                          [@ EXCEPT !.pc = after_arm(input.method, out.err),
                                    !.dispatched = TRUE,
                                    !.result = Some([err |-> out.err,
                                                     result |-> IF out.err = None
                                                                THEN Some([success |-> TRUE])
                                                                ELSE None])]]
            /\ UNCHANGED <<now, auth, merge_queue, task_vars, entries, sequence, history, minted, conn>>

\* requests of the three lock classes and of the one handler that takes two
\* domain locks
LockInputs ==
    {[Get EXCEPT !.method = "task.close", !.key = Some("k1"),
                 !.params = [id |-> merge_task_id("l1", 0)], !.header = None],
     [Get EXCEPT !.method = "loop.merge", !.key = Some("k1"), !.params = [id |-> "l1"],
                 !.header = None],
     [Get EXCEPT !.method = "loop.trigger_merge_task", !.key = Some("k1"),
                 !.params = [id |-> "l1"], !.header = None],
     [Get EXCEPT !.method = "stream.unsubscribe", !.params = [subscription_id |-> UnknownSubscriptionId],
                 !.header = None]}

LockReceive == Receive(LockInputs)

NextLock ==
    \/ LockReceive
    \/ LockAcquire
    \/ LockedTaskCall
    \/ LockedLoopCall
    \/ LockedTriggerCall
    \/ StreamCall
    \/ RpcPublish
    \/ RpcStore

InitLock == Init /\ auth = "trusted_local"

\* every request runs on a worker thread of its own that keeps running: a
\* step that stays possible is eventually taken; requests arrive at will
FairLock ==
    /\ WF_vars(LockAcquire)
    /\ WF_vars(LockedTaskCall)
    /\ WF_vars(LockedLoopCall)
    /\ WF_vars(LockedTriggerCall)
    /\ WF_vars(StreamCall)
    /\ WF_vars(RpcPublish)
    /\ WF_vars(RpcStore)

\* concurrent requests competing for the domain locks of a trusted-local
\* runtime
SpecLock == InitLock /\ [][NextLock]_vars /\ FairLock

\* ------------------------------------------------------------------------
\* Task status changes made through the pipeline
\* ------------------------------------------------------------------------
\* requests that change a task's status: a create, a run of that task,
\* run_all and loop.trigger_merge_task
AnnounceInputs ==
    {[Get EXCEPT !.method = "task.create", !.key = Some("k1"), !.params = CreateA,
                 !.header = None],
     [Get EXCEPT !.method = "task.run", !.key = Some("k1"), !.params = [id |-> "t1"],
                 !.header = None],
     [Get EXCEPT !.method = "task.run_all", !.key = Some("k1"), !.params = EmptyMap,
                 !.header = None],
     [Get EXCEPT !.method = "loop.trigger_merge_task", !.key = Some("k1"),
                 !.params = [id |-> "l1"], !.header = None]}

AnnounceReceive == Receive(AnnounceInputs)

NextAnnounce ==
    \/ AnnounceReceive
    \/ LockAcquire
    \/ LockedTaskCall
    \/ LockedTriggerCall
    \/ RpcPublish
    \/ RpcStore

\* status-changing requests against a trusted-local runtime
SpecAnnounce == InitLock /\ [][NextAnnounce]_vars

\* ------------------------------------------------------------------------
\* Loop-merge domain (loop_domain.rs) over the merge queue of ralph-core
\* ------------------------------------------------------------------------
LoopIds == {"l1"}
MergeStates == {"Queued", "Merging", "Merged", "NeedsReview", "Discarded"}

\* outcome of a merge-queue call; marks lists the states the entry was given
QueueOk(Q, marks) == [queue |-> Q, err |-> None, marks |-> marks]
QueueErr(Q, code) == [queue |-> Q, err |-> Some(code), marks |-> <<>>]

\* MergeQueue::get_entry
get_entry(Q, id) == IF id \in DOMAIN Q THEN Some(Q[id]) ELSE None

\* MergeQueue::enqueue: a finished loop enters the queue
enqueue(Q, id) ==
    IF id \in DOMAIN Q THEN QueueErr(Q, "PRECONDITION_FAILED")
    ELSE QueueOk([x \in DOMAIN Q \cup {id} |->
                    IF x = id THEN [state |-> "Queued", merge_commit |-> None] ELSE Q[x]],
                 <<"Queued">>)

\* a transition of the entry's state machine: NotFound maps to
\* loop-not-found, InvalidTransition to precondition-failed (map_merge_error)
transition(Q, id, from, to, commit) ==
    IF id \notin DOMAIN Q THEN QueueErr(Q, "LOOP_NOT_FOUND")
    ELSE IF Q[id].state \notin from THEN QueueErr(Q, "PRECONDITION_FAILED")
    ELSE QueueOk([Q EXCEPT ![id] = [state |-> to,
                                    merge_commit |-> IF commit = None THEN @.merge_commit
                                                     ELSE commit]],
                 <<to>>)

\* Queued -> Merging, and NeedsReview -> back to Merging
mark_merging(Q, id) == transition(Q, id, {"Queued", "NeedsReview"}, "Merging", None)
\* Merging -> Merged, with the merge commit
mark_merged(Q, id, commit) == transition(Q, id, {"Merging"}, "Merged", Some(commit))
\* Merging -> NeedsReview
mark_needs_review(Q, id) == transition(Q, id, {"Merging"}, "NeedsReview", None)
\* any non-terminal state -> Discarded
discard(Q, id) == transition(Q, id, {"Queued", "Merging", "NeedsReview"}, "Discarded", None)

\* current_commit: the short HEAD hash, or "manual"
CommitInputs == {"abc1234", "manual"}

\* LoopDomain::merge without the guard on an entry that is merging
merge_NoMergingGuard(Q, params, commit) ==
    LET entry == get_entry(Q, params.id)
    IN  IF entry = None THEN QueueErr(Q, "LOOP_NOT_FOUND")
        ELSE IF Unwrap(entry).state \in {"Merged", "Discarded"}
             THEN QueueErr(Q, "PRECONDITION_FAILED")
        ELSE LET first == IF Unwrap(entry).state /= "Merging" THEN mark_merging(Q, params.id)
                          ELSE QueueOk(Q, <<>>)
             IN  IF first.err /= None THEN first
                 ELSE LET second == mark_merged(first.queue, params.id, commit)
                      IN  IF second.err /= None THEN QueueErr(first.queue, Unwrap(second.err))
                          ELSE QueueOk(second.queue, first.marks \o second.marks)

\* LoopDomain::merge
merge(Q, params, commit) ==
    LET entry == get_entry(Q, params.id)
        force == IF params.force = None THEN FALSE ELSE Unwrap(params.force)
    IN  IF entry = None THEN QueueErr(Q, "LOOP_NOT_FOUND")
        ELSE IF Unwrap(entry).state \in {"Merged", "Discarded"}
             THEN QueueErr(Q, "PRECONDITION_FAILED")
        ELSE IF Unwrap(entry).state = "Merging" /\ ~force
             THEN QueueErr(Q, "PRECONDITION_FAILED")
        ELSE LET first == IF Unwrap(entry).state /= "Merging" THEN mark_merging(Q, params.id)
                          ELSE QueueOk(Q, <<>>)
             IN  IF first.err /= None THEN first
                 ELSE LET second == mark_merged(first.queue, params.id, commit)
                      IN  IF second.err /= None THEN QueueErr(first.queue, Unwrap(second.err))
                          ELSE QueueOk(second.queue, first.marks \o second.marks)

\* the loops of other processes and the merge worker act on the queue
MergeQueueStep ==
    \E id \in LoopIds, commit \in CommitInputs :
        \E out \in {enqueue(merge_queue, id), mark_merging(merge_queue, id),
                     mark_needs_review(merge_queue, id), mark_merged(merge_queue, id, commit),
                     discard(merge_queue, id)} :
            /\ out.err = None
            /\ merge_queue' = out.queue
            /\ UNCHANGED <<now, auth, task_vars, stream_vars, rpc_vars>>

\* dispatch_loop "loop.merge" under the loop-domain lock
LoopMergeCall ==
    \E r \in ReqIds, commit \in CommitInputs :
        LET input == Unwrap(reqs[r].input)
            out == merge(merge_queue, input.params, commit)
        IN  /\ reqs[r].pc = "dispatch"
            /\ input.method = "loop.merge"
            /\ merge_queue' = out.queue
            /\ last_op' = [op |-> input.method, id |-> input.params.id, err |-> out.err,
                           marks |-> out.marks]
            /\ reqs' = [reqs EXCEPT ![r] =
                          [@ EXCEPT !.pc = after_arm(input.method, out.err),
                                    !.dispatched = TRUE,
                                    !.result = Some([err |-> out.err,
                                                     result |-> IF out.err = None
                                                                THEN [success |-> TRUE]
                                                                ELSE None])]]
            /\ UNCHANGED <<now, auth, tasks, queue_counter, stream_vars, entries>>

\* requests of the loop, stream and task families: loop.merge without and
\* with force, the three stream methods, and a task.create
DispatchInputs ==
    {[Get EXCEPT !.method = "loop.merge", !.key = Some("k1"),
                 !.params = [id |-> "l1", force |-> None], !.header = None],
     [Get EXCEPT !.method = "loop.merge", !.key = Some("k2"),
                 !.params = [id |-> "l1", force |-> Some(TRUE)], !.header = None],
     [Get EXCEPT !.method = "stream.subscribe",
                 !.params = [topics |-> <<TaskTopic, LoopTopic>>, cursor |-> None,
                             replay_limit |-> None, filters |-> None],
                 !.header = None],
     [Get EXCEPT !.method = "stream.unsubscribe",
                 !.params = [subscription_id |-> subscription_id(0, 1)], !.header = None],
     [Get EXCEPT !.method = "stream.ack",
                 !.params = [subscription_id |-> subscription_id(0, 1),
                             cursor |-> format_cursor(0, 1)],
                 !.header = None],
     [Get EXCEPT !.method = "task.create", !.key = Some("k1"), !.params = CreateA,
                 !.header = None]}

DispatchReceive == Receive(DispatchInputs)

NextDispatch ==
    \/ DispatchReceive
    \/ MergeQueueStep
    \/ LoopMergeCall
    \/ StreamCall
    \/ RpcDispatch
    \/ RpcPublish
    \/ RpcStore

\* requests of three method families against a trusted-local runtime whose
\* merge queue other processes fill and work on
SpecDispatch == InitLock /\ [][NextDispatch]_vars

\* ------------------------------------------------------------------------
\* loop.retry (loop_domain.rs, loop_side_effects.rs)
\* ------------------------------------------------------------------------
\* str::trim on the steering inputs of the model
trim(text) == CASE text = " " -> "" [] text = " fix " -> "fix" [] OTHER -> text

\* LoopDomain::retry.  steering is what the call wrote to
\* .ralph/merge-steering.txt, spawned whether it ran `ralph loops retry`;
\* write_ok and worker_ok are the outcomes of the file write and of the
\* worker process.
loop_retry(Q, params, write_ok, worker_ok) ==
    LET writes == /\ params.steering_input /= None
                  /\ trim(Unwrap(params.steering_input)) /= ""
        steering == IF writes THEN Some(trim(Unwrap(params.steering_input))) ELSE None
        entry == get_entry(Q, params.id)
    IN  IF writes /\ ~write_ok
        THEN [err |-> Some("INTERNAL"), steering |-> None, spawned |-> FALSE]
        ELSE IF entry = None
        THEN [err |-> Some("LOOP_NOT_FOUND"), steering |-> steering, spawned |-> FALSE]
        ELSE IF Unwrap(entry).state /= "NeedsReview"
        THEN [err |-> Some("PRECONDITION_FAILED"), steering |-> steering, spawned |-> FALSE]
        ELSE [err |-> IF worker_ok THEN None ELSE Some("INTERNAL"),
              steering |-> steering, spawned |-> TRUE]

\* dispatch_loop "loop.retry" under the loop-domain lock
LoopRetryCall ==
    \E r \in ReqIds, write_ok \in BOOLEAN, worker_ok \in BOOLEAN :
        LET input == Unwrap(reqs[r].input)
            out == loop_retry(merge_queue, input.params, write_ok, worker_ok)
        IN  /\ reqs[r].pc = "dispatch"
            /\ input.method = "loop.retry"
            /\ last_op' = [op |-> input.method, id |-> input.params.id, err |-> out.err,
                           steering |-> out.steering, spawned |-> out.spawned]
            /\ reqs' = [reqs EXCEPT ![r] =
                          [@ EXCEPT !.pc = after_arm(input.method, out.err),
                                    !.dispatched = TRUE,
                                    !.result = Some([err |-> out.err,
                                                     result |-> IF out.err = None
                                                                THEN [success |-> TRUE]
                                                                ELSE None])]]
            /\ UNCHANGED <<now, auth, merge_queue, tasks, queue_counter, stream_vars, entries>>

\* loop.retry without steering input, with a blank one and with a text
RetryInputs ==
    {[Get EXCEPT !.method = "loop.retry", !.key = Some("k1"),
                 !.params = [id |-> "l1", steering_input |-> None], !.header = None],
     [Get EXCEPT !.method = "loop.retry", !.key = Some("k2"),
                 !.params = [id |-> "l1", steering_input |-> Some(" ")], !.header = None],
     [Get EXCEPT !.method = "loop.retry", !.key = Some("k3"),
                 !.params = [id |-> "l1", steering_input |-> Some(" fix ")], !.header = None]}

RetryReceive == Receive(RetryInputs)

NextRetry ==
    \/ RetryReceive
    \/ MergeQueueStep
    \/ LoopRetryCall
    \/ RpcPublish
    \/ RpcStore

\* loop.retry requests against a trusted-local runtime whose merge queue
\* other processes fill and work on
SpecRetry == InitLock /\ [][NextRetry]_vars

\* ------------------------------------------------------------------------
\* Error responses (errors.rs): ApiError::new applied to every RpcErrorCode
\* ------------------------------------------------------------------------
\* a request of a domain whose handler can fail
ErrorInputs ==
    {[Get EXCEPT !.method = "config.get", !.params = [id |-> ""], !.header = None]}

ErrorReceive == Receive(ErrorInputs)

\* dispatch returns Err(ApiError::new(code)); every code of the enum is
\* drawn, those no handler constructs today included
ErrorCall ==
    \E r \in ReqIds, code \in RpcErrorCodes :
        /\ reqs[r].pc = "dispatch"
        /\ reqs' = [reqs EXCEPT ![r] =
                      [@ EXCEPT !.pc = "store", !.dispatched = TRUE,
                                !.result = Some([err |-> Some(code), result |-> None])]]
        /\ UNCHANGED <<now, auth, merge_queue, task_vars, stream_vars, entries>>

NextError ==
    \/ ErrorReceive
    \/ ErrorCall
    \/ RpcStore

\* requests whose handler fails, with each error code in turn
SpecError == InitLock /\ [][NextError]_vars

\* ------------------------------------------------------------------------
\* Planning artifacts (planning_domain.rs): get_artifact over the session
\* directory; strings are sequences of characters
\* ------------------------------------------------------------------------
AsciiAlphanumeric ==
    {"a", "b", "c", "d", "e", "f", "g", "h", "i", "j", "k", "l", "m", "n", "o", "p", "q", "r",
     "s", "t", "u", "v", "w", "x", "y", "z",
     "A", "B", "C", "D", "E", "F", "G", "H", "I", "J", "K", "L", "M", "N", "O", "P", "Q", "R",
     "S", "T", "U", "V", "W", "X", "Y", "Z",
     "0", "1", "2", "3", "4", "5", "6", "7", "8", "9"}

MAX_SESSION_ID_LEN == 120
MaxFilenameLen == 255

\* Ok(()) is None, Err(invalid_params) is Some(code)
validate_session_id(session_id) ==
    IF Len(session_id) = 0 \/ Len(session_id) > MAX_SESSION_ID_LEN THEN Some("INVALID_PARAMS")
    ELSE IF ~(\A i \in 1..Len(session_id) : session_id[i] \in AsciiAlphanumeric \cup {"-", "_"})
    THEN Some("INVALID_PARAMS")
    ELSE None

\* the pieces of a path between its separators
SplitPath(path) ==
    LET seps == {i \in 1..Len(path) : path[i] = "/"}
        nth(k) == IF k = 0 THEN 0
                  ELSE IF k > Cardinality(seps) THEN Len(path) + 1
                  ELSE CHOOSE i \in seps : Cardinality({j \in seps : j < i}) = k - 1
    IN  [k \in 1..(Cardinality(seps) + 1) |-> SubSeq(path, nth(k - 1) + 1, nth(k) - 1)]

\* Path::components on Unix: a leading separator is RootDir, repeated and
\* trailing separators vanish, "." is kept only at the front of a relative
\* path, ".." is ParentDir, the rest is Normal
RECURSIVE ComponentsFrom(_, _, _)
ComponentsFrom(pieces, i, has_root) ==
    IF i > Len(pieces) THEN <<>>
    ELSE LET piece == pieces[i]
             tail == ComponentsFrom(pieces, i + 1, has_root)
         IN  IF piece = <<>> THEN tail
             ELSE IF piece = <<".">>
                  THEN IF i = 1 /\ ~has_root THEN <<[kind |-> "CurDir", name |-> piece]>> \o tail
                       ELSE tail
             ELSE IF piece = <<".", ".">> THEN <<[kind |-> "ParentDir", name |-> piece]>> \o tail
             ELSE <<[kind |-> "Normal", name |-> piece]>> \o tail

components(path) ==
    LET has_root == Len(path) > 0 /\ path[1] = "/"
    IN  (IF has_root THEN <<[kind |-> "RootDir", name |-> <<"/">>]>> ELSE <<>>)
        \o ComponentsFrom(SplitPath(path), 1, has_root)

is_invalid_filename(filename) ==
    LET c == components(filename)
    IN  IF Len(c) = 1 /\ c[1].kind = "Normal" THEN Len(c[1].name) = 0 ELSE TRUE

is_listed_artifact_name(filename) ==
    /\ ~(Len(filename) > 0 /\ filename[1] = ".")
    /\ Len(filename) <= MaxFilenameLen
    /\ Len(filename) /= 0
    /\ \A i \in 1..Len(filename) : filename[i] \in AsciiAlphanumeric \cup {".", "_", "-"}
    /\ ~is_invalid_filename(filename)

\* what the file system holds for the request: whether the session directory
\* exists, and the entry artifacts/<filename> in it
EntryKinds == {"missing", "file", "binary", "symlink", "dir"}
Contents == {<<"P", "L", "A", "N">>}
FsViews ==
    {[session_exists |-> FALSE, kind |-> "missing", content |-> <<>>]}
    \cup {[session_exists |-> TRUE, kind |-> k, content |-> IF k = "missing" \/ k = "dir" THEN <<>> ELSE c] :
            k \in EntryKinds, c \in Contents}

\* symlink_metadata(path): Err for a missing entry, else the entry's own type
symlink_metadata(fs) == IF fs.kind = "missing" THEN None ELSE Some(fs.kind)
\* a regular file, whatever its bytes
is_file(kind) == kind \in {"file", "binary"}
\* read_to_string: Err when the bytes are not UTF-8
read_to_string(fs) == IF fs.kind = "file" THEN Some(fs.content) ELSE None

ArtifactErr(code) == [err |-> Some(code), result |-> None]

\* get_artifact without the look at the entry's own type
get_artifact_FollowLinks(params, fs) ==
    IF validate_session_id(params.sessionId) /= None THEN ArtifactErr("INVALID_PARAMS")
    ELSE IF is_invalid_filename(params.filename) THEN ArtifactErr("INVALID_PARAMS")
    ELSE IF ~is_listed_artifact_name(params.filename) THEN ArtifactErr("NOT_FOUND")
    ELSE IF ~fs.session_exists THEN ArtifactErr("PLANNING_SESSION_NOT_FOUND")
    ELSE IF symlink_metadata(fs) = None THEN ArtifactErr("NOT_FOUND")
    ELSE IF fs.kind \in {"dir", "binary"} THEN ArtifactErr("NOT_FOUND")
    ELSE [err |-> None, result |-> [filename |-> params.filename, content |-> fs.content]]

get_artifact(params, fs) ==
    IF validate_session_id(params.sessionId) /= None THEN ArtifactErr("INVALID_PARAMS")
    ELSE IF is_invalid_filename(params.filename) THEN ArtifactErr("INVALID_PARAMS")
    ELSE IF ~is_listed_artifact_name(params.filename) THEN ArtifactErr("NOT_FOUND")
    ELSE IF ~fs.session_exists THEN ArtifactErr("PLANNING_SESSION_NOT_FOUND")
    ELSE IF symlink_metadata(fs) = None THEN ArtifactErr("NOT_FOUND")
    ELSE IF ~is_file(Unwrap(symlink_metadata(fs))) THEN ArtifactErr("NOT_FOUND")
    ELSE IF read_to_string(fs) = None THEN ArtifactErr("NOT_FOUND")
    ELSE [err |-> None,
          result |-> [filename |-> params.filename, content |-> Unwrap(read_to_string(fs))]]

\* file names: a whitelisted one, a dotfile, a plain name outside the
\* whitelist, names that are no plain file name, a name one character too long
PlanMd == <<"p", "l", "a", "n", ".", "m", "d">>
Filenames ==
    {PlanMd, <<".", "e", "n", "v">>, <<"a", " ", "b">>, <<"a", "/">>,
     <<"a", "/", "b">>, <<".", ".">>, <<".", "/", "a">>, <<>>,
     [i \in 1..(MaxFilenameLen + 1) |-> "a"]}
SessionIds == {<<"s", "1">>, <<".", ".", "/", "s">>}

ArtifactInputs ==
    {[Get EXCEPT !.method = "planning.get_artifact", !.header = None,
                 !.params = [sessionId |-> s, filename |-> f]] :
        s \in SessionIds, f \in Filenames}

\* requests are handled two at a time
MaxArtifactRequests == 2

ArtifactReceive ==
    /\ reqs[MaxArtifactRequests].pc = "idle"
    /\ Receive(ArtifactInputs)

\* the "planning.get_artifact" arm of dispatch_planning, with the file system
\* as it is at the call; the view is kept with the request for the comparison
\* of runs
ArtifactCall ==
    \E r \in ReqIds, fs \in FsViews :
        LET input == Unwrap(reqs[r].input)
            out == get_artifact(input.params, fs)
        IN  /\ reqs[r].pc = "dispatch"
            /\ input.method = "planning.get_artifact"
            /\ reqs' = [reqs EXCEPT ![r] =
                          [@ EXCEPT !.pc = after_arm(input.method, out.err), !.dispatched = TRUE,
                                    !.result = Some(out), !.fs = Some(fs)]]
            /\ UNCHANGED <<now, auth, merge_queue, task_vars, stream_vars, entries>>

NextArtifact ==
    \/ ArtifactReceive
    \/ ArtifactCall
    \/ RpcPublish
    \/ RpcStore

\* artifact requests against every content of the session directory
SpecArtifact == InitLock /\ [][NextArtifact]_vars

\* ------------------------------------------------------------------------
\* Task invariants
\* ------------------------------------------------------------------------
IsQueuedStatus(status) == status \in {"pending", "running"}

\* C10 as stated: every task is pending or running if and only if its
\* queuedTaskId is set.
C10_QueueIdIffQueued ==
    \A id \in DOMAIN tasks :
        IsQueuedStatus(tasks[id].status) <=> IsSome(tasks[id].queued_task_id)

\* C10 as amended: a task that holds a queuedTaskId is pending or running
\* (the converse fails: create and update store a pending or running status
\* without minting a queue id).
C10_QueueIdOnlyWhenQueued ==
    \A id \in DOMAIN tasks :
        IsSome(tasks[id].queued_task_id) => IsQueuedStatus(tasks[id].status)

\* a task that was queued by run and then moved to running by task.update
\* keeps its queue id
C10_Witness ==
    /\ last_op.op = "update"
    /\ last_op.err = None
    /\ \E id \in DOMAIN tasks :
          tasks[id].status = "running" /\ IsSome(tasks[id].queued_task_id)

\* C11: every stored task has completed_at set if and only if its status is
\* terminal (closed or failed), whatever sequence of task operations ran.
C11_CompletedIffTerminal ==
    \A id \in DOMAIN tasks :
        IsSome(tasks[id].completed_at) <=> tasks[id].status \in {"closed", "failed"}

\* retry succeeds only on a failed task, which held a completed_at; after
\* it the task is pending with completed_at cleared, next to a task that is
\* terminal and holds one
C11_Witness ==
    /\ last_op.op = "retry"
    /\ last_op.err = None
    /\ last_op.id \in DOMAIN tasks
    /\ tasks[last_op.id].status = "pending"
    /\ tasks[last_op.id].completed_at = None
    /\ \E other \in DOMAIN tasks :
          tasks[other].status = "closed" /\ IsSome(tasks[other].completed_at)

\* C12: a stored task's error_message is set only when its status is
\* failed, whatever sequence of task operations ran.
C12_ErrorMessageOnlyWhenFailed ==
    \A id \in DOMAIN tasks :
        IsSome(tasks[id].error_message) => tasks[id].status = "failed"

\* a cancelled task holds the message while another task, moved by close,
\* holds none
C12_Witness ==
    /\ last_op.op = "close"
    /\ last_op.err = None
    /\ last_op.id \in DOMAIN tasks
    /\ tasks[last_op.id].status = "closed"
    /\ tasks[last_op.id].error_message = None
    /\ \E other \in DOMAIN tasks :
          /\ tasks[other].status = "failed"
          /\ tasks[other].error_message = Some("Task cancelled by user")

\* C13: every stored task's status is one of open, pending, running,
\* closed, failed.
C13_StatusDomain ==
    \A id \in DOMAIN tasks :
        tasks[id].status \in {"open", "pending", "running", "closed", "failed"}

\* C14: a task.delete step removes the named task, and only it, when its
\* status is failed or closed; for a stored task in any other status it fails
\* with precondition-failed (HTTP 412) and for an unknown id with
\* task-not-found, and in both cases the store is left as it was.
C14_DeleteGuard ==
    [][last_op'.op = "delete" =>
        LET id == last_op'.id
        IN  IF id \notin DOMAIN tasks
            THEN /\ last_op'.err = Some("TASK_NOT_FOUND")
                 /\ tasks' = tasks
            ELSE IF tasks[id].status = "failed" \/ tasks[id].status = "closed"
            THEN /\ last_op'.err = None
                 /\ DOMAIN tasks' = DOMAIN tasks \ {id}
                 /\ \A x \in DOMAIN tasks' : tasks'[x] = tasks[x]
            ELSE /\ last_op'.err = Some("PRECONDITION_FAILED")
                 /\ status_for_code(Unwrap(last_op'.err)) = 412
                 /\ tasks' = tasks]_vars

\* a delete was refused with precondition-failed and its task is still
\* stored, in a status that is neither failed nor closed
C14_Witness ==
    /\ last_op.op = "delete"
    /\ last_op.err = Some("PRECONDITION_FAILED")
    /\ last_op.id \in DOMAIN tasks
    /\ tasks[last_op.id].status \notin {"failed", "closed"}

\* the blocker named by a task is stored and is closed or archived
BlockerReleased(id) ==
    \E b \in DOMAIN tasks :
        /\ tasks[id].blocked_by = Some(b)
        /\ (tasks[b].status = "closed" \/ tasks[b].archived_at /= None)

\* C15: in every reachable state task.ready returns exactly the stored tasks
\* that are open, not archived, and either unblocked or blocked by a stored
\* task that is closed or archived.
C15_ReadyExactly ==
    /\ ready(tasks) \subseteq DOMAIN tasks
    /\ \A id \in DOMAIN tasks :
          id \in ready(tasks) <=>
              /\ tasks[id].status = "open"
              /\ tasks[id].archived_at = None
              /\ (tasks[id].blocked_by = None \/ BlockerReleased(id))

\* t2 waits for t1: it is returned once t1 is closed; the other cases (t1
\* open, failed or not stored) keep it out of the ready set
C15_Witness ==
    /\ {"t1", "t2"} \subseteq DOMAIN tasks
    /\ tasks["t2"].blocked_by = Some("t1")
    /\ tasks["t1"].status = "closed"
    /\ tasks["t1"].archived_at = None
    /\ "t2" \in ready(tasks)

\* ------------------------------------------------------------------------
\* Request gate properties
\* ------------------------------------------------------------------------
\* the gates in the order a request has to pass them
GateOrder == <<"json", "object", "method", "schema", "envelope", "apiVersion", "auth", "key">>

PassesGate(gate, input) ==
    CASE gate = "json" -> input.raw.json
      [] gate = "object" -> input.raw.object
      [] gate = "method" -> input.raw.has_method /\ input.method \in KNOWN_METHODS
      [] gate = "schema" -> input.raw.schema_ok
      [] gate = "envelope" -> input.raw.envelope_ok
      [] gate = "apiVersion" -> input.raw.api_version = "v1"
      [] gate = "auth" -> authorize(auth, input.header, input.meta_auth) /= None
      [] gate = "key" -> input.method \notin MUTATING_METHODS \/ input.key /= None

\* the error a gate answers with; an object without a string 'method' is an
\* invalid request, a method outside the catalog is method-not-found
GateCode(gate, input) ==
    CASE gate = "method" -> IF input.raw.has_method THEN "METHOD_NOT_FOUND" ELSE "INVALID_REQUEST"
      [] gate \in {"schema", "key"} -> "INVALID_PARAMS"
      [] gate = "auth" -> "UNAUTHORIZED"
      [] OTHER -> "INVALID_REQUEST"

\* position in GateOrder of the first gate the request fails, 0 if none
FirstFailingGate(input) ==
    LET failing == {i \in DOMAIN GateOrder : ~PassesGate(GateOrder[i], input)}
    IN  IF failing = {} THEN 0 ELSE CHOOSE i \in failing : \A j \in failing : i <= j

\* C16: a request that fails a gate is answered with the error of the first
\* gate it fails, in the order JSON parse, object check, method catalog,
\* schema, envelope parse, apiVersion, authentication, idempotency key; the
\* step changes no task, no idempotency entry and no event-bus state; and
\* only a request that passes every gate goes on to the idempotency check
\* and the domain handler.
C16_RequestGates ==
    [][\A r \in ReqIds :
          /\ (reqs[r].pc = "idle" /\ reqs'[r].pc /= "idle") =>
                LET input == Unwrap(reqs'[r].input)
                    g == FirstFailingGate(input)
                IN  IF g /= 0
                    THEN LET code == GateCode(GateOrder[g], input)
                             response == Unwrap(reqs'[r].response)
                         IN  /\ reqs'[r].pc = "done"
                             /\ reqs'[r].idem = None
                             /\ ~response.envelope.ok
                             /\ response.envelope.body = code
                             /\ response.status = status_for_code(code)
                             /\ UNCHANGED <<task_vars, stream_vars, entries>>
                    ELSE reqs'[r].pc = "dispatch" \/ reqs'[r].idem /= None
          /\ reqs'[r].dispatched => FirstFailingGate(Unwrap(reqs'[r].input)) = 0]_vars

\* a request with an unknown method, a schema violation and a foreign
\* apiVersion was answered method-not-found while the store already holds a
\* task and an idempotency entry of an accepted request
C16_Witness ==
    \E r \in ReqIds :
        /\ reqs[r].pc = "done"
        /\ Unwrap(reqs[r].input).method = "task.bogus"
        /\ ~Unwrap(reqs[r].input).raw.schema_ok
        /\ Unwrap(reqs[r].response).status = 404
        /\ tasks /= EmptyMap
        /\ entries /= EmptyMap

\* the request passes the six parsing gates that precede authentication
ParseGatesPass(input) == \A i \in 1..6 : PassesGate(GateOrder[i], input)

\* the credentials C17 accepts: a bearer token in the Authorization header
\* equal to the secret, or a meta.auth of mode "token" with that token
HeaderHoldsSecret(input) ==
    /\ input.header /= None
    /\ Unwrap(input.header).scheme \in {"Bearer", "bearer"}
    /\ Unwrap(input.header).token = ExpectedToken
MetaHoldsSecret(input) ==
    /\ input.meta_auth /= None
    /\ Unwrap(input.meta_auth).mode = "token"
    /\ Unwrap(input.meta_auth).token = Some(ExpectedToken)

AnsweredUnauthorized(req) ==
    /\ req.pc = "done"
    /\ ~Unwrap(req.response).envelope.ok
    /\ Unwrap(req.response).envelope.body = "UNAUTHORIZED"

\* C17: in token mode a parsed request is authorized, with the token as its
\* principal, if and only if its bearer token or its meta.auth token equals
\* the secret; every other request is answered unauthorized (401) and never
\* dispatched; in trusted-local mode every request is authorized with
\* principal "trusted_local".
C17_TokenAuthIff ==
    \A r \in ReqIds :
        (reqs[r].pc /= "idle" /\ ParseGatesPass(Unwrap(reqs[r].input))) =>
            LET input == Unwrap(reqs[r].input)
                principal == authorize(auth, input.header, input.meta_auth)
            IN  IF auth = "trusted_local"
                THEN ~AnsweredUnauthorized(reqs[r]) /\ principal = Some("trusted_local")
                ELSE IF HeaderHoldsSecret(input) \/ MetaHoldsSecret(input)
                THEN ~AnsweredUnauthorized(reqs[r]) /\ principal = Some(ExpectedToken)
                ELSE /\ AnsweredUnauthorized(reqs[r])
                     /\ Unwrap(reqs[r].response).status = 401
                     /\ ~reqs[r].dispatched

\* ------------------------------------------------------------------------
\* Idempotency properties
\* ------------------------------------------------------------------------
\* the Authorization headers each authenticator accepts
AcceptedHeader(authenticator, header) ==
    \/ authenticator = "trusted_local"
    \/ /\ authenticator = "token"
       /\ header /= None
       /\ Unwrap(header).token = ExpectedToken
    \/ /\ authenticator = "components"
       /\ header /= None

PrincipalOfHeader(authenticator, header) ==
    IF authenticator = "trusted_local" THEN "trusted_local" ELSE Unwrap(header).token

InputOf(req) == Unwrap(req.input)

\* a request that reaches idempotency.check: authorized, mutating, with a key
ReachesCheck(input) ==
    /\ AcceptedHeader(auth, input.header)
    /\ input.method \in MUTATING_METHODS
    /\ input.key /= None

StoreKeyOf(input) == make_key(input.method, Unwrap(input.key))

SameCall(a, b) == a.method = b.method /\ a.key = b.key /\ a.params = b.params

Expired(entry, t) == t - entry.created_at > IdempotencyTtl

\* the step in which request r is received and passes the gates and the check
IsReceiveOf(r) == reqs[r].pc = "idle" /\ reqs'[r].pc /= "idle"

\* the step in which request r builds, stores and returns its response
IsStoreOf(r) == reqs[r].pc = "store" /\ reqs'[r].pc = "done"

\* C1 as stated: once a first request (M,K,P) has completed, every request with
\* the same (M,K,P) that arrives later and within the TTL returns the same
\* status and envelope and is not dispatched.
C1_ReplayExact ==
    \A r1, r2 \in ReqIds :
        (/\ reqs[r1].pc = "done"
         /\ reqs[r2].pc = "done"
         /\ r1 \in reqs[r2].prior
         /\ reqs[r1].idem = Some("New")
         /\ ReachesCheck(InputOf(reqs[r2]))
         /\ SameCall(InputOf(reqs[r1]), InputOf(reqs[r2]))
         /\ reqs[r2].started_at - reqs[r1].done_at <= IdempotencyTtl)
        => /\ reqs[r2].response = reqs[r1].response
           /\ ~reqs[r2].dispatched

\* C2: a request that reaches the check while an unexpired entry for its
\* (method, key) holds different params gets idempotency-conflict (409), is
\* never dispatched, and leaves the entry, the tasks and the bus unchanged.
C2_ConflictRefused ==
    [][\A r \in ReqIds :
         /\ (/\ IsReceiveOf(r)
             /\ ReachesCheck(InputOf(reqs'[r]))
             /\ StoreKeyOf(InputOf(reqs'[r])) \in DOMAIN entries
             /\ ~Expired(entries[StoreKeyOf(InputOf(reqs'[r]))], now)
             /\ entries[StoreKeyOf(InputOf(reqs'[r]))].params /= InputOf(reqs'[r]).params)
            => /\ reqs'[r].pc = "done"
               /\ Unwrap(reqs'[r].response).status = 409
               /\ Unwrap(reqs'[r].response).envelope.body = "IDEMPOTENCY_CONFLICT"
               /\ ~reqs'[r].dispatched
               /\ StoreKeyOf(InputOf(reqs'[r])) \in DOMAIN entries'
               /\ entries'[StoreKeyOf(InputOf(reqs'[r]))] = entries[StoreKeyOf(InputOf(reqs'[r]))]
               /\ tasks' = tasks
               /\ queue_counter' = queue_counter
               /\ sequence' = sequence
               /\ history' = history
         /\ reqs[r].pc = "done" => reqs'[r] = reqs[r]]_vars

\* a request was refused with idempotency-conflict while the entry of the
\* first call is still stored
C2_Witness ==
    \E r \in ReqIds :
        /\ reqs[r].pc = "done"
        /\ reqs[r].idem = Some("Conflict")
        /\ Unwrap(reqs[r].response).status = 409
        /\ StoreKeyOf(InputOf(reqs[r])) \in DOMAIN entries
        /\ entries[StoreKeyOf(InputOf(reqs[r]))].params /= InputOf(reqs[r]).params

\* C3: every check and every store leaves no entry older than the TTL; a
\* request that reaches the check when its (method, key) has no entry or an
\* expired one is treated as New (it goes on to dispatch), whatever its params;
\* and the store writes its response as a fresh entry.
C3_ExpiredIsFresh ==
    [][\A r \in ReqIds :
         /\ (IsReceiveOf(r) /\ ReachesCheck(InputOf(reqs'[r])))
            => /\ \A k \in DOMAIN entries' : ~Expired(entries'[k], now)
               /\ (\/ StoreKeyOf(InputOf(reqs'[r])) \notin DOMAIN entries
                   \/ Expired(entries[StoreKeyOf(InputOf(reqs'[r]))], now))
                  => /\ reqs'[r].pc = "dispatch"
                     /\ StoreKeyOf(InputOf(reqs'[r])) \notin DOMAIN entries'
         /\ (IsStoreOf(r) /\ ReachesCheck(InputOf(reqs[r])))
            => /\ \A k \in DOMAIN entries' : ~Expired(entries'[k], now)
               /\ reqs[r].dispatched
               /\ entries'[StoreKeyOf(InputOf(reqs[r]))] =
                    [params |-> InputOf(reqs[r]).params,
                     response |-> Unwrap(reqs'[r].response),
                     created_at |-> now]]_vars

\* a request was dispatched and stored again after the entry of an earlier
\* request with the same method and key had expired
C3_Witness ==
    \E r1, r2 \in ReqIds :
        /\ reqs[r1].pc = "done"
        /\ reqs[r2].pc = "done"
        /\ r1 \in reqs[r2].prior
        /\ reqs[r1].idem = Some("New")
        /\ reqs[r2].idem = Some("New")
        /\ StoreKeyOf(InputOf(reqs[r1])) = StoreKeyOf(InputOf(reqs[r2]))
        /\ reqs[r2].started_at - reqs[r1].done_at > IdempotencyTtl
        /\ reqs[r2].dispatched
        /\ entries[StoreKeyOf(InputOf(reqs[r2]))].created_at = reqs[r2].done_at

\* ------------------------------------------------------------------------
\* Stream properties
\* ------------------------------------------------------------------------
StrictlyIncreasing(numbers) ==
    \A i, j \in 1..Len(numbers) : i < j => numbers[i] < numbers[j]

SequencesOf(events) == [i \in 1..Len(events) |-> events[i].sequence]

IsBackpressure(event) ==
    /\ event.topic = "error.raised"
    /\ event.payload.code = "BACKPRESSURE_DROPPED"

\* C4 as stated: the sequence numbers of the frames sent on a connection, in
\* the order they are sent, are strictly increasing.
C4_FramesStrictlyIncreasing == StrictlyIncreasing(SequencesOf(conn.sent))

\* C5: every event minted by the bus (publish, keepalive, backpressure) gets a
\* sequence number strictly greater than that of every event minted before it.
C5_MintedStrictlyIncreasing == StrictlyIncreasing(minted)

\* a published event, a backpressure notice and a keepalive have all been minted
C5_Witness ==
    /\ Len(minted) >= 3
    /\ history /= <<>>
    /\ \E i, j \in 1..Len(conn.sent) :
          IsBackpressure(conn.sent[i]) /\ conn.sent[j].topic = "stream.keepalive"

SeqOfCursor(cursor) == Unwrap(cursor_sequence(cursor))

\* C6: the sequence parsed from a subscription's cursor never decreases, and in
\* every reachable state an ack whose cursor sequence is strictly less than the
\* current one fails with precondition-failed and changes nothing.
C6_AckNeverMovesBack ==
    /\ [][\A id \in DOMAIN subscriptions \cap DOMAIN subscriptions' :
            SeqOfCursor(subscriptions'[id].cursor) >= SeqOfCursor(subscriptions[id].cursor)]_vars
    /\ [](\A id \in DOMAIN subscriptions, cursor \in AckCursorInputs :
            (/\ cursor_sequence(cursor) /= None
             /\ SeqOfCursor(cursor) < SeqOfCursor(subscriptions[id].cursor))
            => /\ ack(subscriptions, id, cursor).err = Some("PRECONDITION_FAILED")
               /\ ack(subscriptions, id, cursor).subscriptions = subscriptions)

\* an ack moved the cursor to sequence 2, and an ack of sequence 1 is refused
C6_Witness ==
    \E id \in DOMAIN subscriptions :
        /\ subscriptions[id].cursor = format_cursor(0, 2)
        /\ subscriptions[id].explicit_cursor
        /\ ack(subscriptions, id, format_cursor(0, 1)).err = Some("PRECONDITION_FAILED")

\* the step of stream_connection that computes the replay batch
IsReplayStep == conn.pc = "authorized" /\ conn'.pc = "replayed"

\* C7: the replay batch a connection computes holds only events whose sequence
\* is strictly greater than the sequence of the subscription's cursor (the
\* acked cursor after a successful ack), and never the event with that cursor.
C7_ReplayOnlyAfterCursor ==
    [][IsReplayStep =>
        \A i \in 1..Len(conn'.replay) :
            /\ conn'.replay[i].sequence >
                 SeqOfCursor(subscriptions[Unwrap(conn.subscription_id)].cursor)
            /\ conn'.replay[i].cursor /= subscriptions[Unwrap(conn.subscription_id)].cursor]_vars

\* a connection replays after an ack of cursor 0-1 while the acked event is
\* still in the history: only the later event is in the batch
C7_Witness ==
    /\ conn.pc = "replayed"
    /\ conn.replay /= <<>>
    /\ \A i \in 1..Len(conn.replay) :
          /\ conn.replay[i].replay.mode = "resume"
          /\ conn.replay[i].replay.requested_cursor = Some(format_cursor(0, 1))
    /\ \E i \in 1..Len(history) : history[i].cursor = format_cursor(0, 1)

\* the history events above the cursor that the subscription selects
PendingFor(subscription, hist) ==
    SelectSeq(hist, LAMBDA event :
        /\ event.sequence > SeqOfCursor(subscription.cursor)
        /\ event.topic \in subscription.topics
        /\ (subscription.filters.resource_ids = {}
              \/ event.resource.id \in subscription.filters.resource_ids)
        /\ (subscription.filters.resource_types = {}
              \/ event.resource.kind \in subscription.filters.resource_types))

LastN(events, n) ==
    IF Len(events) <= n THEN events ELSE SubSeq(events, Len(events) - n + 1, Len(events))

\* the step of stream_connection that has sent the notice and the whole batch
IsReplaySentStep == conn.pc = "replayed" /\ conn'.pc = "live"

\* C8: with m pending events and m > replayLimit the batch is the replayLimit
\* most recent pending events and the connection sends one BACKPRESSURE_DROPPED
\* notice reporting m - replayLimit, then the batch in increasing order; with
\* m <= replayLimit it sends all m events and no notice.
C8_ReplayCap ==
    [][/\ IsReplayStep =>
            LET subscription == subscriptions[Unwrap(conn.subscription_id)]
                pending == PendingFor(subscription, history)
                m == Len(pending)
            IN  /\ SequencesOf(conn'.replay) =
                     SequencesOf(LastN(pending, subscription.replay_limit))
                /\ conn'.dropped_count =
                     IF m > subscription.replay_limit THEN m - subscription.replay_limit ELSE 0
       /\ IsReplaySentStep =>
            /\ StrictlyIncreasing(SequencesOf(conn.replay))
            /\ IF conn.dropped_count > 0
               THEN /\ Len(conn'.sent) = Len(conn.replay) + 1
                    /\ IsBackpressure(conn'.sent[1])
                    /\ conn'.sent[1].payload.dropped = conn.dropped_count
                    /\ Tail(conn'.sent) = conn.replay
               ELSE conn'.sent = conn.replay]_vars

\* a live connection that was sent a notice of one dropped event and then the
\* single event its replayLimit of 1 allows
C8_Witness ==
    /\ conn.pc = "live"
    /\ conn.dropped_count = 1
    /\ Len(conn.sent) >= 2
    /\ IsBackpressure(conn.sent[1])
    /\ conn.sent[2] = conn.replay[1]

\* C9: a connection gets past the guards only when its upgrade authenticated,
\* it names a stored subscription and its principal is the one stored with the
\* subscription; frames are only ever sent past the guards.
C9_StreamAuthBinding ==
    /\ [][conn'.pc = "authorized" /\ conn.pc /= "authorized" =>
            /\ AcceptedHeader(auth, conn.header)
            /\ conn.subscription_id /= None
            /\ Unwrap(conn.subscription_id) \in DOMAIN subscriptions
            /\ subscriptions[Unwrap(conn.subscription_id)].principal =
                 PrincipalOfHeader(auth, conn.header)]_vars
    /\ [][conn'.pc = "replayed" /\ conn.pc /= "replayed" => conn.pc = "authorized"]_vars
    /\ [][conn'.sent /= conn.sent /\ conn'.sent /= <<>> => conn.pc \in {"replayed", "live"}]_vars
    /\ [](conn.pc \in {"upgraded", "has_sub", "authorized"} => conn.sent = <<>>)

\* a connection whose bearer token is the one that created the subscription
\* has been sent a frame
C9_Witness ==
    /\ auth = "components"
    /\ conn.pc = "live"
    /\ conn.sent /= <<>>
    /\ Unwrap(conn.header).token = "wrong"

\* a step of publish that accepted an event: the counter moved and the
\* connection neither sent a frame nor changed its position
IsPublishStep ==
    /\ sequence' = sequence + 1
    /\ conn'.pc = conn.pc
    /\ conn'.sent = conn.sent

\* C18: the history never holds more than HISTORY_LIMIT events, its sequence
\* numbers are strictly increasing and none of its events is a keepalive or a
\* backpressure notice; every accepted publish appends its event, evicting
\* the oldest entry when the history is full, and no other step changes the
\* history, so the history is the most recent accepted events.
C18_BoundedHistory ==
    [][/\ Len(history') <= HISTORY_LIMIT
       /\ StrictlyIncreasing(SequencesOf(history'))
       /\ \A i \in 1..Len(history') :
             history'[i].topic /= "stream.keepalive" /\ ~IsBackpressure(history'[i])
       /\ IF IsPublishStep
          THEN LET event == history'[Len(history')]
               IN  /\ history' /= <<>>
                   /\ event.sequence = sequence
                   /\ history' = LastN(Append(history, event), HISTORY_LIMIT)
                   /\ Len(history) = HISTORY_LIMIT => history' = Append(Tail(history), event)
          ELSE history' = history]_vars

\* the history is full, its oldest accepted event has been evicted, and a
\* keepalive or backpressure notice minted between its two entries is not in it
C18_Witness ==
    /\ Len(history) = HISTORY_LIMIT
    /\ history[1].sequence >= 1
    /\ \E i \in 1..(Len(history) - 1) : history[i + 1].sequence > history[i].sequence + 1

\* the predicate of C19 on a subscription record and an event
FilterAdmits(subscription, event) ==
    /\ \E topic \in subscription.topics : topic = event.topic
    /\ \/ subscription.filters.resource_ids = {}
       \/ \E id \in subscription.filters.resource_ids : id = event.resource.id
    /\ \/ subscription.filters.resource_types = {}
       \/ \E kind \in subscription.filters.resource_types : kind = event.resource.kind

\* a frame that carries a published event, not a synthesized one
IsPublishedFrame(event) == event.topic /= "stream.keepalive" /\ ~IsBackpressure(event)

\* C19: every published event in the replay batch of a connection and every
\* published event it has sent, replayed or live, is admitted by the topics
\* and filters of the connection's subscription; and the events eligible for
\* replay are all the history events that are admitted and lie above the
\* cursor.
C19_SubscriptionFiltering ==
    /\ \A id \in DOMAIN subscriptions :
          LET eligible == replay_events(subscriptions[id], history)
          IN  \A i \in 1..Len(history) :
                  (/\ FilterAdmits(subscriptions[id], history[i])
                   /\ history[i].sequence > SeqOfCursor(subscriptions[id].cursor))
                  => \E j \in 1..Len(eligible) : eligible[j] = history[i]
    /\ (conn.subscription_id /= None /\ Unwrap(conn.subscription_id) \in DOMAIN subscriptions) =>
          LET subscription == subscriptions[Unwrap(conn.subscription_id)]
          IN  /\ \A i \in 1..Len(conn.replay) : FilterAdmits(subscription, conn.replay[i])
              /\ \A i \in 1..Len(conn.sent) :
                    IsPublishedFrame(conn.sent[i]) => FilterAdmits(subscription, conn.sent[i])

\* the connection has sent a published event of its subscription while the
\* history holds a later event of a subscribed topic that the filter rejects
C19_Witness ==
    /\ conn.pc = "live"
    /\ Unwrap(conn.subscription_id) \in DOMAIN subscriptions
    /\ \E i \in 1..Len(conn.sent) : IsPublishedFrame(conn.sent[i])
    /\ conn.rx = <<>>
    /\ LET subscription == subscriptions[Unwrap(conn.subscription_id)]
       IN  \E i \in 1..Len(history) :
              /\ \E topic \in subscription.topics : topic = history[i].topic
              /\ ~FilterAdmits(subscription, history[i])
              /\ \A j \in 1..Len(conn.sent) : conn.sent[j].sequence /= history[i].sequence

\* ------------------------------------------------------------------------
\* Lock properties
\* ------------------------------------------------------------------------
\* the lock discipline of C20 in one state
LockOrder ==
    \A r \in ReqIds :
        LET req == reqs[r]
        IN  /\ WaitsFor(req) = Some("loop") => "task" \notin Holds(req)
            /\ Cardinality(Holds(req)) = 2 =>
                  Unwrap(req.input).method = "loop.trigger_merge_task"
            /\ ("task" \in Holds(req) /\ req.pc = "locked_1") => LocksOf(req) = <<"task">>
            /\ WaitsFor(req) = Some("bus") => Holds(req) = {}
            /\ \A q \in ReqIds \ {r} : Holds(req) \cap Holds(reqs[q]) = {}

\* C20: no request waits for the loop-domain lock while it holds the
\* task-domain lock; only loop.trigger_merge_task holds two domain locks, and
\* it takes loop before task; no request holds a domain lock when it takes
\* the event-bus lock; and every request that was received completes.
C20_DeadlockFreedom ==
    /\ []LockOrder
    /\ \A r \in ReqIds : (reqs[r].pc /= "idle") ~> (reqs[r].pc = "done")

\* loop.trigger_merge_task holds the loop-domain lock and waits for the
\* task-domain lock, which a task handler holds, while a third request waits
\* for the loop-domain lock
C20_Witness ==
    \E r, q, w \in ReqIds :
        /\ reqs[r].input /= None
        /\ Unwrap(reqs[r].input).method = "loop.trigger_merge_task"
        /\ Holds(reqs[r]) = {"loop"}
        /\ WaitsFor(reqs[r]) = Some("task")
        /\ Holds(reqs[q]) = {"task"}
        /\ WaitsFor(reqs[w]) = Some("loop")

\* ------------------------------------------------------------------------
\* Error table
\* ------------------------------------------------------------------------
\* the HTTP status the error table gives a code
TableStatus(code) ==
    CASE code \in {"INVALID_REQUEST", "INVALID_PARAMS", "CONFIG_INVALID"} -> 400
      [] code = "UNAUTHORIZED" -> 401
      [] code = "FORBIDDEN" -> 403
      [] code \in {"NOT_FOUND", "TASK_NOT_FOUND", "LOOP_NOT_FOUND", "PLANNING_SESSION_NOT_FOUND",
                   "COLLECTION_NOT_FOUND", "METHOD_NOT_FOUND"} -> 404
      [] code \in {"CONFLICT", "IDEMPOTENCY_CONFLICT"} -> 409
      [] code = "PRECONDITION_FAILED" -> 412
      [] code = "RATE_LIMITED" -> 429
      [] code = "TIMEOUT" -> 408
      [] code \in {"SERVICE_UNAVAILABLE", "BACKPRESSURE_DROPPED"} -> 503
      [] code = "INTERNAL" -> 500

RetryableCodes == {"RATE_LIMITED", "TIMEOUT", "SERVICE_UNAVAILABLE", "BACKPRESSURE_DROPPED"}

IsErrorResponse(req) == req.pc = "done" /\ ~Unwrap(req.response).envelope.ok

\* C21: every error response carries a code of the enum, the HTTP status
\* the error table gives that code, and retryable = TRUE exactly for
\* rate-limited, timeout, service-unavailable and backpressure-dropped.
C21_ErrorTable ==
    \A r \in ReqIds :
        IsErrorResponse(reqs[r]) =>
            LET response == Unwrap(reqs[r].response)
                code == response.envelope.body
            IN  /\ code \in RpcErrorCodes
                /\ response.status = TableStatus(code)
                /\ response.envelope.retryable = (code \in RetryableCodes)

\* error responses of a retryable and of a non-retryable code, one of them
\* the timeout, stand side by side
C21_Witness ==
    \E a, b \in ReqIds :
        /\ IsErrorResponse(reqs[a]) /\ IsErrorResponse(reqs[b])
        /\ Unwrap(reqs[a].response).envelope.body = "TIMEOUT"
        /\ Unwrap(reqs[a].response).envelope.retryable
        /\ Unwrap(reqs[a].response).status = 408
        /\ Unwrap(reqs[b].response).envelope.body = "CONFIG_INVALID"
        /\ ~Unwrap(reqs[b].response).envelope.retryable
        /\ Unwrap(reqs[b].response).status = 400

\* ------------------------------------------------------------------------
\* Loop merge
\* ------------------------------------------------------------------------
\* request r leaves the handler's arm in this step
IsCallOf(r, method) ==
    /\ reqs[r].pc = "dispatch"
    /\ reqs'[r].pc \in {"publish", "store"}
    /\ InputOf(reqs[r]).method = method

\* the error a request's handler returned, None for Ok
CallErr(req) == Unwrap(req.result).err

Refused(id, force) ==
    \/ merge_queue[id].state \in {"Merged", "Discarded"}
    \/ merge_queue[id].state = "Merging" /\ force /= Some(TRUE)

\* C22: loop.merge on an unknown id fails with loop-not-found; on an entry
\* that is Merged or Discarded, or Merging without force = true, it fails
\* with precondition-failed; either way the queue is left as it was.  In
\* every other case the entry ends in Merged with a merge commit, marked
\* Merging first when it was not already Merging.
C22_LoopMergeGuard ==
    [][\A r \in ReqIds :
          IsCallOf(r, "loop.merge") =>
              LET params == InputOf(reqs[r]).params
                  id == params.id
              IN  IF id \notin DOMAIN merge_queue
                  THEN CallErr(reqs'[r]) = Some("LOOP_NOT_FOUND") /\ merge_queue' = merge_queue
                  ELSE IF Refused(id, params.force)
                  THEN /\ CallErr(reqs'[r]) = Some("PRECONDITION_FAILED")
                       /\ merge_queue' = merge_queue
                  ELSE /\ CallErr(reqs'[r]) = None
                       /\ merge_queue'[id].state = "Merged"
                       /\ merge_queue'[id].merge_commit \in {Some(c) : c \in CommitInputs}
                       /\ last_op'.marks = IF merge_queue[id].state = "Merging"
                                           THEN <<"Merged">>
                                           ELSE <<"Merging", "Merged">>]_vars

\* one loop.merge was refused with precondition-failed, a later one took
\* the entry through Merging to Merged
C22_Witness ==
    /\ last_op.op = "loop.merge"
    /\ last_op.err = None
    /\ last_op.marks = <<"Merging", "Merged">>
    /\ "l1" \in DOMAIN merge_queue
    /\ merge_queue["l1"].state = "Merged"
    /\ \E r \in ReqIds :
          /\ reqs[r].pc = "done"
          /\ InputOf(reqs[r]).method = "loop.merge"
          /\ reqs[r].dispatched
          /\ CallErr(reqs[r]) = Some("PRECONDITION_FAILED")
          /\ Unwrap(reqs[r].response).status = 412

\* ------------------------------------------------------------------------
\* Artifact path safety
\* ------------------------------------------------------------------------
\* request r is an answered planning.get_artifact call
ArtifactAnswered(r) ==
    /\ reqs[r].pc = "done"
    /\ reqs[r].dispatched
    /\ InputOf(reqs[r]).method = "planning.get_artifact"

ValidSessionId(s) ==
    /\ Len(s) \in 1..120
    /\ \A i \in 1..Len(s) : s[i] \in AsciiAlphanumeric \cup {"-", "_"}

Whitelisted(f) ==
    /\ Len(f) \in 1..255
    /\ f[1] /= "."
    /\ \A i \in 1..Len(f) : f[i] \in AsciiAlphanumeric \cup {".", "_", "-"}

\* the response of r is the error `code` with HTTP status `status`
AnsweredError(r, code, status) ==
    LET response == Unwrap(reqs[r].response)
    IN  /\ ~response.envelope.ok
        /\ response.envelope.body = code
        /\ response.status = status

SameAnswer(a, b) ==
    /\ Unwrap(reqs[a].response).status = Unwrap(reqs[b].response).status
    /\ Unwrap(reqs[a].response).envelope.ok = Unwrap(reqs[b].response).envelope.ok
    /\ Unwrap(reqs[a].response).envelope.body = Unwrap(reqs[b].response).envelope.body

ContentOnlyFromRegularFile(r) ==
    Unwrap(reqs[r].response).envelope.ok =>
        /\ ValidSessionId(InputOf(reqs[r]).params.sessionId)
        /\ Whitelisted(InputOf(reqs[r]).params.filename)
        /\ Unwrap(reqs[r].fs).session_exists
        /\ Unwrap(reqs[r].fs).kind = "file"
        /\ Unwrap(reqs[r].response).envelope.body =
              [filename |-> InputOf(reqs[r]).params.filename,
               content |-> Unwrap(reqs[r].fs).content]

\* C23 as stated: content is returned only for a valid session id, a
\* whitelisted name and a regular file; for an existing session every name
\* outside the whitelist and every entry that is a symlink, a directory or
\* missing is answered not-found, whatever the directory holds.
C23_ArtifactAlwaysNotFound ==
    \A r \in ReqIds :
        ArtifactAnswered(r) =>
            LET params == InputOf(reqs[r]).params
                fs == Unwrap(reqs[r].fs)
            IN  /\ ContentOnlyFromRegularFile(r)
                /\ (/\ ValidSessionId(params.sessionId)
                    /\ fs.session_exists
                    /\ \/ ~Whitelisted(params.filename)
                       \/ fs.kind \in {"symlink", "dir", "missing"})
                   => AnsweredError(r, "NOT_FOUND", 404)

\* C23, amended: content is returned only for a valid session id, a
\* whitelisted name and a regular file.  With a valid session id, a name that
\* is no plain file name (not exactly one normal path component) is answered
\* invalid-params, every other name outside the whitelist is answered
\* not-found, and in an existing session a whitelisted name whose entry is a
\* symlink, a directory, missing or not readable as text is answered
\* not-found; two calls with the same parameters and a name outside the
\* whitelist get the same answer whatever the directory holds.
C23_ArtifactPathSafety ==
    \A r \in ReqIds :
        ArtifactAnswered(r) =>
            LET params == InputOf(reqs[r]).params
                fs == Unwrap(reqs[r].fs)
            IN  /\ ContentOnlyFromRegularFile(r)
                /\ ValidSessionId(params.sessionId) =>
                      IF is_invalid_filename(params.filename)
                      THEN AnsweredError(r, "INVALID_PARAMS", 400)
                      ELSE IF ~Whitelisted(params.filename)
                      THEN AnsweredError(r, "NOT_FOUND", 404)
                      ELSE (fs.session_exists /\ fs.kind /= "file")
                              => AnsweredError(r, "NOT_FOUND", 404)
                /\ \A q \in ReqIds :
                      (/\ ArtifactAnswered(q)
                       /\ InputOf(reqs[q]).params = params
                       /\ ~Whitelisted(params.filename))
                      => SameAnswer(r, q)

\* the same whitelisted name asked twice in an existing session: once the
\* entry is a symlink and the answer is not-found, once it is a regular file
\* and its content is returned
C23_Witness ==
    \E a, b \in ReqIds :
        /\ ArtifactAnswered(a)
        /\ ArtifactAnswered(b)
        /\ InputOf(reqs[a]).params = [sessionId |-> <<"s", "1">>, filename |-> PlanMd]
        /\ InputOf(reqs[b]).params = InputOf(reqs[a]).params
        /\ Unwrap(reqs[a].fs).session_exists
        /\ Unwrap(reqs[a].fs).kind = "symlink"
        /\ AnsweredError(a, "NOT_FOUND", 404)
        /\ Unwrap(reqs[b].fs).kind = "file"
        /\ Unwrap(reqs[b].response).envelope.ok

\* ------------------------------------------------------------------------
\* Side-effect gating
\* ------------------------------------------------------------------------
\* request r moves in this step
Moves(r) == reqs'[r] /= reqs[r]

\* C24: the bus sequence counter and the history change only in a step of
\* a request whose handler returned Ok and whose method is not stream.*; no
\* step of a request whose handler returned an error, and no step of a
\* stream.subscribe / stream.unsubscribe / stream.ack request, changes them.
C24_SideEffectGating ==
    [][/\ \A r \in ReqIds :
             (/\ Moves(r)
              /\ reqs[r].pc /= "idle"
              /\ \/ InputOf(reqs[r]).method \in StreamMethods
                 \/ reqs'[r].dispatched /\ reqs'[r].result /= None /\ CallErr(reqs'[r]) /= None)
             => sequence' = sequence /\ history' = history
       /\ (sequence' /= sequence \/ history' /= history)
             => \E r \in ReqIds :
                   /\ Moves(r)
                   /\ reqs[r].dispatched
                   /\ CallErr(reqs[r]) = None
                   /\ InputOf(reqs[r]).method \notin StreamMethods]_vars

\* a refused loop.merge and a stream.subscribe were answered and left the
\* bus alone; a successful loop.merge published the one event in the history
C24_Witness ==
    /\ Len(history) = 1
    /\ sequence = 1
    /\ history[1].topic = LoopTopic
    /\ \E a, b, c \in ReqIds :
          /\ reqs[a].pc = "done" /\ reqs[b].pc = "done" /\ reqs[c].pc = "done"
          /\ InputOf(reqs[a]).method = "loop.merge"
          /\ reqs[a].dispatched
          /\ CallErr(reqs[a]) /= None
          /\ InputOf(reqs[b]).method = "stream.subscribe"
          /\ reqs[b].dispatched
          /\ CallErr(reqs[b]) = None
          /\ InputOf(reqs[c]).method = "loop.merge"
          /\ reqs[c].dispatched
          /\ CallErr(reqs[c]) = None

\* ------------------------------------------------------------------------
\* Order of store and publish
\* ------------------------------------------------------------------------
\* request r publishes a side-effect event in this step
IsPublishOf(r) ==
    /\ reqs[r].pc = "publish"
    /\ reqs'[r].pc = "store"
    /\ sequence' = sequence + 1

\* C25: when a new mutating request publishes its side-effect event, the
\* idempotency entry for its (method, key) is already stored, so that a
\* repeat of the same (method, key, params) at that moment is answered by
\* replay.
C25_StoreBeforePublish ==
    [][\A r \in ReqIds :
          (IsPublishOf(r) /\ reqs[r].idem = Some("New"))
          => LET input == InputOf(reqs[r])
             IN  check(entries', input.method, Unwrap(input.key), input.params, now').outcome
                    = "Replay"]_vars

\* ------------------------------------------------------------------------
\* Concurrent requests with one idempotency key
\* ------------------------------------------------------------------------
\* a and b were in flight at the same time: neither arrived after the other
\* had completed
Concurrent(a, b) == a /= b /\ a \notin reqs[b].prior /\ b \notin reqs[a].prior

\* C26: of two answered requests with the same mutating method, key and
\* params that were in flight at the same time, within the TTL, at most one
\* was dispatched, and both got the same status and envelope.
C26_AtMostOnceDispatch ==
    \A a, b \in ReqIds :
        (/\ reqs[a].pc = "done"
         /\ reqs[b].pc = "done"
         /\ Concurrent(a, b)
         /\ ReachesCheck(InputOf(reqs[a]))
         /\ ReachesCheck(InputOf(reqs[b]))
         /\ SameCall(InputOf(reqs[a]), InputOf(reqs[b]))
         /\ reqs[a].done_at - reqs[b].started_at <= IdempotencyTtl
         /\ reqs[b].done_at - reqs[a].started_at <= IdempotencyTtl)
        => /\ ~(reqs[a].dispatched /\ reqs[b].dispatched)
           /\ reqs[a].response = reqs[b].response

\* ------------------------------------------------------------------------
\* Attaching a connection to the bus
\* ------------------------------------------------------------------------
IsBackpressureNotice(frame) ==
    frame.topic = "error.raised" /\ frame.resource.kind = "stream"

\* the connection told its client that events were dropped, or is about to
DropsAccounted ==
    \/ conn.lagged > 0
    \/ \E i \in 1..Len(conn.sent) : IsBackpressureNotice(conn.sent[i])

\* the event was sent on the connection or waits in its live receiver
DeliveredOrQueued(event) ==
    \/ \E i \in 1..Len(conn.sent) : conn.sent[i].sequence = event.sequence
    \/ \E i \in 1..Len(conn.rx) : conn.rx[i].sequence = event.sequence

\* C27: once a connection is attached to the bus, every published event that
\* matches its subscription and lies above the subscription's cursor has been
\* sent on it (in the replay batch or live), waits in its live receiver, or
\* is accounted for by a BACKPRESSURE_DROPPED notice.
C27_NoSilentLossOnAttach ==
    (conn.pc = "live" /\ Unwrap(conn.subscription_id) \in DOMAIN subscriptions)
    => \A i \in 1..Len(history) :
          (/\ subscription_matches(subscriptions[Unwrap(conn.subscription_id)], history[i])
           /\ history[i].sequence >
                SeqOfCursor(subscriptions[Unwrap(conn.subscription_id)].cursor))
          => DeliveredOrQueued(history[i]) \/ DropsAccounted

\* ------------------------------------------------------------------------
\* Subscribing without a cursor
\* ------------------------------------------------------------------------
\* the replay batch of the subscription once the bus has published `e` next
ReplayAfterPublish(subscription, e) ==
    replay_batch(subscription,
                 push_history(history', next_event(sequence', e.topic, e.kind, e.id, "payload", now'))).events

\* C28: when stream.subscribe without a cursor has stored a subscription,
\* the next matching event the bus publishes is in that subscription's
\* replay, also when it is the first event ever published and the history
\* was empty at the subscribe call.
C28_CursorlessSubscribeMissesNothing ==
    [][\A id \in DOMAIN subscriptions' \ DOMAIN subscriptions :
          ~subscriptions'[id].explicit_cursor
          => \A e \in PublishInputs :
                (/\ e.topic \in STREAM_TOPICS
                 /\ subscription_matches(subscriptions'[id],
                                         next_event(sequence', e.topic, e.kind, e.id, "payload", now')))
                => \E i \in 1..Len(ReplayAfterPublish(subscriptions'[id], e)) :
                      ReplayAfterPublish(subscriptions'[id], e)[i].sequence = sequence']_vars

\* ------------------------------------------------------------------------
\* Failed task operations
\* ------------------------------------------------------------------------
FallibleTaskOps ==
    {"create", "update", "close", "archive", "unarchive", "delete", "run", "retry", "cancel"}

\* C29: a task-domain operation that returns an error leaves every task
\* record as it was before the call.
C29_ErrorLeavesTasksUnchanged ==
    [][(last_op'.op \in FallibleTaskOps /\ last_op'.err /= None) => tasks' = tasks]_vars

\* ------------------------------------------------------------------------
\* Announcement of status changes
\* ------------------------------------------------------------------------
\* no request is between its arrival and its response
Quiescent == \A r \in ReqIds : reqs[r].pc \in {"idle", "done"}

\* the history holds an event that announces the status of task id
Announced(id, status) ==
    \E i \in 1..Len(history) :
        /\ history[i].topic = TaskTopic
        /\ history[i].resource.id = id
        /\ history[i].payload.to = status

\* C30 as stated: once every request is answered, a task.status.changed event
\* announces the status each task has: every status a successful RPC gave a
\* task was published, also for the tasks enqueued by task.run_all and by
\* loop.trigger_merge_task.
C30_StatusChangesAnnounced ==
    Quiescent => \A id \in DOMAIN tasks : Announced(id, tasks[id].status)

\* the task methods publish_rpc_side_effect maps to task.status.changed
MappedTaskMethods ==
    {"task.create", "task.update", "task.close", "task.cancel", "task.retry", "task.run"}

\* request r was dispatched and answered with a success
Succeeded(r) == reqs[r].pc = "done" /\ reqs[r].dispatched /\ CallErr(reqs[r]) = None

TaskEvents == {i \in 1..Len(history) : history[i].topic = TaskTopic}

\* C30, amended: once every request is answered, each successful
\* task.create, task.update, task.close, task.cancel, task.retry and
\* task.run has published a task.status.changed event for the task of its
\* result whose payload.to is the status in that result; these are the only
\* task events: task.run_all and loop.trigger_merge_task publish none.
C30_MappedStatusChangesAnnounced ==
    (Quiescent /\ sequence <= HISTORY_LIMIT) =>
        /\ \A r \in ReqIds :
              (Succeeded(r) /\ InputOf(reqs[r]).method \in MappedTaskMethods)
              => Announced(Unwrap(reqs[r].result).result.task.id,
                           Unwrap(reqs[r].result).result.task.status)
        /\ Cardinality(TaskEvents) =
              Cardinality({r \in ReqIds :
                             Succeeded(r) /\ InputOf(reqs[r]).method \in MappedTaskMethods})

\* a task.run was answered and its task announced as pending, while the
\* pending task that a successful loop.trigger_merge_task created has no
\* event
C30_Witness ==
    /\ Quiescent
    /\ \E a, b \in ReqIds :
          /\ Succeeded(a)
          /\ InputOf(reqs[a]).method = "task.run"
          /\ Announced("t1", "pending")
          /\ Succeeded(b)
          /\ InputOf(reqs[b]).method = "loop.trigger_merge_task"
          /\ \E id \in DOMAIN tasks :
                /\ id /= "t1"
                /\ tasks[id].status = "pending"
                /\ ~Announced(id, "pending")

\* ------------------------------------------------------------------------
\* Order of events and mutations
\* ------------------------------------------------------------------------
\* the task.status.changed events of the history about task id, oldest first
EventsAbout(id) ==
    SelectSeq(history, LAMBDA event : event.topic = TaskTopic /\ event.resource.id = id)

\* C31: once every request is answered, the most recent task.status.changed
\* event about each task announces the status the task has: events enter
\* the history in the order in which the mutations were applied.
C31_EventOrderFollowsMutationOrder ==
    Quiescent =>
        \A id \in DOMAIN tasks :
            EventsAbout(id) /= <<>>
            => EventsAbout(id)[Len(EventsAbout(id))].payload.to = tasks[id].status

\* ------------------------------------------------------------------------
\* task.create
\* ------------------------------------------------------------------------
RequestedStatus(p) == IF p.status = None THEN "open" ELSE Unwrap(p.status)
AutoExecute(p) == IF p.auto_execute = None THEN TRUE ELSE Unwrap(p.auto_execute)

\* the new task would be returned by task.ready: blockedBy is absent or
\* names a stored task that is closed or archived
NotBlocked(p) ==
    \/ p.blocked_by = None
    \/ \E b \in DOMAIN tasks :
          /\ p.blocked_by = Some(b)
          /\ (tasks[b].status = "closed" \/ tasks[b].archived_at /= None)

\* C32: in every reachable state, a successful task.create with
\* autoExecute true (or absent) leaves the new task pending with a
\* queuedTaskId exactly when the task is not blocked; otherwise, and whenever
\* autoExecute is false, the task is stored with the requested status and
\* no queuedTaskId.
C32_AutoExecuteOnCreate ==
    \A p \in CreateParams :
        LET out == create(tasks, queue_counter, p, now)
        IN  out.err = None =>
                IF AutoExecute(p) /\ NotBlocked(p)
                THEN /\ out.tasks[p.id].status = "pending"
                     /\ out.tasks[p.id].queued_task_id /= None
                ELSE /\ out.tasks[p.id].status = RequestedStatus(p)
                     /\ out.tasks[p.id].queued_task_id = None

\* C33: in every reachable state, task.create with an id that is stored
\* fails with conflict, and task.create of a new id with autoExecute true
\* (or absent) and a requested status other than open fails with
\* invalid-params; in both cases the stored tasks are left as they were.
C33_CreateRejections ==
    \A p \in CreateParams :
        LET out == create(tasks, queue_counter, p, now)
        IN  /\ p.id \in DOMAIN tasks
               => out.err = Some("CONFLICT") /\ out.tasks = tasks
            /\ (p.id \notin DOMAIN tasks /\ AutoExecute(p) /\ RequestedStatus(p) /= "open")
               => out.err = Some("INVALID_PARAMS") /\ out.tasks = tasks

C33_Witness ==
    /\ last_op.op = "create"
    /\ last_op.err = Some("INVALID_PARAMS")
    /\ last_op.id \notin DOMAIN tasks
    /\ tasks /= <<>>

\* ------------------------------------------------------------------------
\* task.run
\* ------------------------------------------------------------------------
QueuedIdsOf(T) == {T[id].queued_task_id : id \in DOMAIN T} \ {None}

\* C34: task.run on a stored task that is archived, or whose status is
\* pending or running, fails with precondition-failed; on any other stored
\* task it sets status to pending, stores a queuedTaskId no task held
\* before, clears completedAt and errorMessage, and answers success with
\* that queuedTaskId.
C34_RunTransition ==
    [][(last_op'.op = "run" /\ last_op'.id \in DOMAIN tasks) =>
          LET id == last_op'.id
              out == run(tasks, queue_counter, id, now)
          IN  IF IsSome(tasks[id].archived_at) \/ tasks[id].status \in {"pending", "running"}
              THEN last_op'.err = Some("PRECONDITION_FAILED")
              ELSE /\ last_op'.err = None
                   /\ tasks'[id].status = "pending"
                   /\ IsSome(tasks'[id].queued_task_id)
                   /\ tasks'[id].queued_task_id \notin QueuedIdsOf(tasks)
                   /\ tasks'[id].completed_at = None
                   /\ tasks'[id].error_message = None
                   /\ out.result.success
                   /\ Some(out.result.queued_task_id) = tasks'[id].queued_task_id]_vars

\* a failed task that had been queued before is run again
C34_Witness ==
    /\ last_op.op = "run"
    /\ last_op.err = None
    /\ last_op.id \in DOMAIN tasks
    /\ tasks[last_op.id].status = "pending"
    /\ IsSome(tasks[last_op.id].queued_task_id)
    /\ Unwrap(tasks[last_op.id].queued_task_id)[3] = 2
    /\ tasks[last_op.id].completed_at = None

\* ------------------------------------------------------------------------
\* task.run_all
\* ------------------------------------------------------------------------
\* C35: task.run_all enqueues exactly the tasks task.ready returns at the
\* start of the call: the enqueued count is the size of that set, the error
\* list is empty, each of those tasks is pending with a queuedTaskId of its
\* own afterwards, no other task changes, and none of them is ready after
\* the call.
C35_RunAllEnqueuesReady ==
    [][last_op'.op = "run_all" =>
          LET before == ready(tasks)
              out == run_all(tasks, queue_counter, now)
          IN  /\ last_op'.err = None
              /\ out.result.enqueued = Cardinality(before)
              /\ out.result.errors = <<>>
              /\ DOMAIN tasks' = DOMAIN tasks
              /\ \A id \in before :
                    /\ tasks'[id].status = "pending"
                    /\ IsSome(tasks'[id].queued_task_id)
                    /\ tasks'[id].queued_task_id \notin QueuedIdsOf(tasks)
              /\ \A a, b \in before :
                    a /= b => tasks'[a].queued_task_id /= tasks'[b].queued_task_id
              /\ \A id \in DOMAIN tasks \ before : tasks'[id] = tasks[id]
              /\ ready(tasks') \cap before = {}]_vars

\* run_all has acted and both tasks are pending, each with its own queue id
C35_Witness ==
    /\ last_op.op = "run_all"
    /\ DOMAIN tasks = TaskIds
    /\ \A id \in TaskIds : tasks[id].status = "pending" /\ IsSome(tasks[id].queued_task_id)
    /\ tasks["t1"].queued_task_id /= tasks["t2"].queued_task_id
    /\ queue_counter = 2

\* ------------------------------------------------------------------------
\* Replay labels
\* ------------------------------------------------------------------------
\* the connection computes its replay batch in this step
ReplayComputed == conn.pc = "authorized" /\ conn'.pc = "replayed"
\* the connection sends one more frame from its select loop in this step
LiveFrameSent == conn.pc = "live" /\ conn'.pc = "live" /\ Len(conn'.sent) = Len(conn.sent) + 1

\* C36: a subscription is marked as holding a client cursor when
\* stream.subscribe supplied one, and otherwise from the first stream.ack
\* that stores its cursor on; every event of a replay batch carries mode "resume" for a marked
\* subscription and "replay" otherwise, with requestedCursor the
\* subscription's cursor and batch the number of events in the batch; frames
\* sent from the live loop carry mode "live".
C36_ReplayModeLabel ==
    [][/\ \A id \in DOMAIN subscriptions' \ DOMAIN subscriptions :
             \E params \in SubscribeInputs :
                /\ subscribe_record(params, subscriptions'[id].principal, history, now)
                      = Some(subscriptions'[id])
                /\ subscriptions'[id].explicit_cursor <=> IsSome(params.cursor)
       /\ \A id \in DOMAIN subscriptions \cap DOMAIN subscriptions' :
             /\ subscriptions[id].explicit_cursor => subscriptions'[id].explicit_cursor
             /\ subscriptions'[id].cursor /= subscriptions[id].cursor
                => subscriptions'[id].explicit_cursor
             /\ (~subscriptions[id].explicit_cursor /\ subscriptions'[id].explicit_cursor)
                => subscriptions'[id].cursor \in AckCursorInputs
       /\ ReplayComputed =>
             LET subscription == subscriptions[Unwrap(conn.subscription_id)]
             IN  \A i \in 1..Len(conn'.replay) :
                   /\ conn'.replay[i].replay.mode =
                        (IF subscription.explicit_cursor THEN "resume" ELSE "replay")
                   /\ conn'.replay[i].replay.requested_cursor = Some(subscription.cursor)
                   /\ conn'.replay[i].replay.batch = Some(Len(conn'.replay))
       /\ LiveFrameSent => conn'.sent[Len(conn'.sent)].replay.mode = "live"]_vars

\* a batch of two events replayed to a subscription whose cursor an ack moved
C36_Witness ==
    /\ conn.pc = "live"
    /\ Len(conn.replay) = 2
    /\ conn.replay[1].replay.mode = "resume"
    /\ conn.replay[1].replay.batch = Some(2)
    /\ conn.replay[1].replay.requested_cursor /= Some(format_cursor(0, 0))
    /\ conn.sent = conn.replay

\* ------------------------------------------------------------------------
\* stream.unsubscribe
\* ------------------------------------------------------------------------
\* the connection's subscription has been removed
ConnUnsubscribed ==
    /\ conn.pc \in {"replayed", "live"}
    /\ Unwrap(conn.subscription_id) \notin DOMAIN subscriptions
\* the frames the connection sends in this step
FramesSent == {conn'.sent[i] : i \in (Len(conn.sent) + 1)..Len(conn'.sent)}

\* stream.unsubscribe removes the subscription or fails with not-found
UnsubscribeRemoves ==
    \A id \in SubscriptionIdInputs :
        LET out == unsubscribe(subscriptions, id)
        IN  IF id \in DOMAIN subscriptions
            THEN /\ out.err = None
                 /\ DOMAIN out.subscriptions = DOMAIN subscriptions \ {id}
                 /\ \A x \in DOMAIN out.subscriptions : out.subscriptions[x] = subscriptions[x]
            ELSE out.err = Some("NOT_FOUND") /\ out.subscriptions = subscriptions
\* stream.ack with a well-formed cursor and a new connection fail for an
\* id that is not stored
GoneIsNotFound ==
    /\ \A id \in SubscriptionIdInputs \ DOMAIN subscriptions :
          \A cursor \in AckCursorInputs :
             validate_cursor(cursor) => ack(subscriptions, id, cursor).err = Some("NOT_FOUND")
    /\ (/\ conn.pc = "upgraded"
        /\ conn' /= conn
        /\ conn.subscription_id /= None
        /\ Unwrap(conn.subscription_id) \notin DOMAIN subscriptions)
       => (conn'.pc = "closed" /\ conn'.sent = <<>>)

RetryCalled ==
    \E r \in ReqIds :
        /\ reqs[r].pc = "dispatch"
        /\ reqs'[r].pc /= "dispatch"
        /\ Unwrap(reqs[r].input).method = "loop.retry"

\* C38: loop.retry writes the steering file or invokes the worker only when
\* the loop's merge entry exists and is in NeedsReview; a loop.retry answered
\* loop-not-found or precondition-failed has written no steering file and
\* has not invoked the worker.
C38_RetryPrecondition ==
    [][RetryCalled =>
          LET entry == get_entry(merge_queue, last_op'.id)
          IN  /\ (last_op'.steering /= None \/ last_op'.spawned)
                 => (entry /= None /\ Unwrap(entry).state = "NeedsReview")
              /\ last_op'.err \in {Some("LOOP_NOT_FOUND"), Some("PRECONDITION_FAILED")}
                 => (last_op'.steering = None /\ ~last_op'.spawned)]_vars

\* ------------------------------------------------------------------------
\* Queue ids
\* ------------------------------------------------------------------------
\* the counter value a queuedTaskId was minted from
CounterOf(queued) == Unwrap(queued)[3]

\* C39: no two tasks hold the same queuedTaskId; the queue counter never
\* decreases, task.clear and task.delete included; every queuedTaskId that
\* appears in a step was minted from a counter value above the counter
\* before the step, and every id held was minted from a value the counter
\* has reached, so an id once minted is never minted again.
C39_QueueIdsUnique ==
    [][/\ \A a, b \in DOMAIN tasks' :
             (a /= b /\ IsSome(tasks'[a].queued_task_id))
             => tasks'[a].queued_task_id /= tasks'[b].queued_task_id
       /\ queue_counter' >= queue_counter
       /\ \A queued \in QueuedIdsOf(tasks') \ QueuedIdsOf(tasks) :
             CounterOf(queued) > queue_counter
       /\ \A queued \in QueuedIdsOf(tasks') : CounterOf(queued) <= queue_counter']_vars

\* the only stored task was created after an earlier mint and holds an id
\* minted from the counter's second value
C39_Witness ==
    /\ DOMAIN tasks = {"t1"}
    /\ IsSome(tasks["t1"].queued_task_id)
    /\ CounterOf(tasks["t1"].queued_task_id) = 2
    /\ queue_counter = 2
    /\ last_op.op = "create"

\* ------------------------------------------------------------------------
\* Replay and the cursor
\* ------------------------------------------------------------------------
\* sequence numbers a replay for the subscription would select now
ReplaySelects(subscription) ==
    {replay_events(subscription, history)[i].sequence :
        i \in 1..Len(replay_events(subscription, history))}
\* every event of the connection's replay batch that the history still
\* holds would be selected again for the subscription as it is now
ReplayedAgain ==
    (/\ conn.replay /= <<>>
     /\ Unwrap(conn.subscription_id) \in DOMAIN subscriptions
     /\ conn.replay[1].replay.requested_cursor
          = Some(subscriptions[Unwrap(conn.subscription_id)].cursor))
    => \A i \in 1..Len(conn.replay) :
          (\E j \in 1..Len(history) : history[j].sequence = conn.replay[i].sequence)
          => conn.replay[i].sequence
                \in ReplaySelects(subscriptions[Unwrap(conn.subscription_id)])

====
